---- MODULE Spec2Model ----
(***************************************************************************)
(* A model of libmaccas-rs: the ApiClient of src/src/api.rs, the response  *)
(* envelope and vendor types of src/src/types/response.rs and the error    *)
(* conversions of src/src/error.rs.                                        *)
(*                                                                         *)
(* Strings are TLA+ strings.  A string that the code parses or encodes     *)
(* (offer id, offset, client id, client secret, bearer tokens) is kept as  *)
(* its sequence of characters, and so is the value of the Authorization    *)
(* header; Str turns a sequence of characters into the string.             *)
(***************************************************************************)
EXTENDS Integers, Sequences, FiniteSets, TLC

VARIABLES client, call, sent, serde, last_set, calls, drawn, failure, shown

vars == <<client, call, sent, serde, last_set, calls, drawn, failure, shown>>

----------------------------------------------------------------------------
(* Bounds of the model *)

\* the mock transport accepts at most this many requests in one behaviour
MaxSent == 2

\* the caller has at most this many calls in flight at once (ConcSpec)
MaxCalls == 2

----------------------------------------------------------------------------
(* Option<T> *)

None == [tag |-> "None"]

Some(x) == [tag |-> "Some", val |-> x]

IsSome(o) == o.tag = "Some"

----------------------------------------------------------------------------
(* Strings as character sequences *)

RECURSIVE Str(_)
\* Display / to_string of a character sequence: the string of its characters
Str(cs) == IF cs = <<>> THEN "" ELSE Head(cs) \o Str(Tail(cs))

Digits == <<"0", "1", "2", "3", "4", "5", "6", "7", "8", "9">>

IsDigit(c) == \E i \in 1..10 : Digits[i] = c

\* the value of a decimal digit character (char::to_digit(10))
DigitVal(c) == (CHOOSE i \in 1..10 : Digits[i] = c) - 1

----------------------------------------------------------------------------
(* str::parse::<i64>: core::num from_str_radix(src, 10) for a signed type.  *)
(* The accumulator is kept as a sequence of decimal digits, most            *)
(* significant first and without leading zeros, so that checked_mul and     *)
(* checked_add are decided against the 64-bit limits exactly.               *)

I64MaxDigits == <<9,2,2,3,3,7,2,0,3,6,8,5,4,7,7,5,8,0,7>>

I64MinDigits == <<9,2,2,3,3,7,2,0,3,6,8,5,4,7,7,5,8,0,8>>

RECURSIVE DigitsLeq(_, _)
\* a <= b for two digit sequences of the same length
DigitsLeq(a, b) ==
    IF a = <<>> THEN TRUE
    ELSE IF Head(a) < Head(b) THEN TRUE
    ELSE IF Head(a) > Head(b) THEN FALSE
    ELSE DigitsLeq(Tail(a), Tail(b))

\* magnitude m fits below the limit lim
Fits(m, lim) == Len(m) < Len(lim) \/ (Len(m) = Len(lim) /\ DigitsLeq(m, lim))

\* acc * 10 + d on magnitudes
MulAdd(acc, d) == IF acc = <<>> /\ d = 0 THEN <<>> ELSE Append(acc, d)

ParseOk(neg, mag) == [tag |-> "Ok", val |-> [neg |-> neg /\ mag # <<>>, mag |-> mag]]

ParseErr(kind) == [tag |-> "Err", err |-> [type |-> "ParseIntError", kind |-> kind]]

RECURSIVE ParseDigits(_, _, _)
ParseDigits(cs, neg, acc) ==
    IF cs = <<>> THEN ParseOk(neg, acc)
    ELSE IF ~IsDigit(Head(cs)) THEN ParseErr("InvalidDigit")
    ELSE LET next == MulAdd(acc, DigitVal(Head(cs)))
         IN  IF ~Fits(next, IF neg THEN I64MinDigits ELSE I64MaxDigits)
             THEN ParseErr(IF neg THEN "NegOverflow" ELSE "PosOverflow")
             ELSE ParseDigits(Tail(cs), neg, next)

RECURSIVE ParseDigitsWrapping(_, _, _)
ParseDigitsWrapping(cs, neg, acc) ==
    IF cs = <<>> THEN ParseOk(neg, acc)
    ELSE IF ~IsDigit(Head(cs)) THEN ParseErr("InvalidDigit")
    ELSE ParseDigitsWrapping(Tail(cs), neg, MulAdd(acc, DigitVal(Head(cs))))

\* parse_i64 without the overflow checks of checked_mul and checked_add
parse_i64_unchecked(cs) ==
    IF cs = <<>> THEN ParseErr("Empty")
    ELSE IF Len(cs) = 1 /\ Head(cs) \in {"+", "-"} THEN ParseErr("InvalidDigit")
    ELSE IF Head(cs) = "+" THEN ParseDigitsWrapping(Tail(cs), FALSE, <<>>)
    ELSE IF Head(cs) = "-" THEN ParseDigitsWrapping(Tail(cs), TRUE, <<>>)
    ELSE ParseDigitsWrapping(cs, FALSE, <<>>)

parse_i64(cs) ==
    IF cs = <<>> THEN ParseErr("Empty")
    ELSE IF Len(cs) = 1 /\ Head(cs) \in {"+", "-"} THEN ParseErr("InvalidDigit")
    ELSE IF Head(cs) = "+" THEN ParseDigits(Tail(cs), FALSE, <<>>)
    ELSE IF Head(cs) = "-" THEN ParseDigits(Tail(cs), TRUE, <<>>)
    ELSE ParseDigits(cs, FALSE, <<>>)

----------------------------------------------------------------------------
(* base64 (standard alphabet, padded), as used by reqwest's basic_auth *)

B64Alphabet ==
    <<"A","B","C","D","E","F","G","H","I","J","K","L","M","N","O","P",
      "Q","R","S","T","U","V","W","X","Y","Z","a","b","c","d","e","f",
      "g","h","i","j","k","l","m","n","o","p","q","r","s","t","u","v",
      "w","x","y","z","0","1","2","3","4","5","6","7","8","9","+","/">>

\* the characters the model draws client ids and secrets from, with their bytes
CharCodes == [c \in {"S", "a", ":", "1"} |->
                 CASE c = "S" -> 83 [] c = "a" -> 97 [] c = ":" -> 58 [] c = "1" -> 49]

RECURSIVE Bytes(_)
Bytes(cs) == IF cs = <<>> THEN <<>> ELSE <<CharCodes[Head(cs)]>> \o Bytes(Tail(cs))

RECURSIVE Base64Encode(_)
Base64Encode(bs) ==
    IF bs = <<>> THEN <<>>
    ELSE IF Len(bs) = 1 THEN
        <<B64Alphabet[(bs[1] \div 4) + 1], B64Alphabet[((bs[1] % 4) * 16) + 1], "=", "=">>
    ELSE IF Len(bs) = 2 THEN
        <<B64Alphabet[(bs[1] \div 4) + 1],
          B64Alphabet[((bs[1] % 4) * 16 + (bs[2] \div 16)) + 1],
          B64Alphabet[((bs[2] % 16) * 4) + 1], "=">>
    ELSE
        <<B64Alphabet[(bs[1] \div 4) + 1],
          B64Alphabet[((bs[1] % 4) * 16 + (bs[2] \div 16)) + 1],
          B64Alphabet[((bs[2] % 16) * 4 + (bs[3] \div 64)) + 1],
          B64Alphabet[(bs[3] % 64) + 1]>> \o Base64Encode(SubSeq(bs, 4, Len(bs)))

----------------------------------------------------------------------------
(* reqwest's RequestBuilder, as far as api.rs uses it.  A request is        *)
(* [method, url, query, headers, body]: query and headers are sequences of  *)
(* <<name, value>> pairs in the order they were added (a multi-map).        *)

\* RequestBuilder::header appends to the header map: a name added twice is
\* carried twice
header(req, name, value) == [req EXCEPT !.headers = Append(@, <<name, value>>)]

\* RequestBuilder::query appends the pairs to the URL's query string
query(req, params) == [req EXCEPT !.query = @ \o params]

HeaderValues(req, name) ==
    LET idx == {i \in 1..Len(req.headers) : req.headers[i][1] = name}
        RECURSIVE Collect(_)
        Collect(i) == IF i > Len(req.headers) THEN <<>>
                      ELSE (IF i \in idx THEN <<req.headers[i][2]>> ELSE <<>>) \o Collect(i + 1)
    IN  Collect(1)

HasHeader(req, name) == HeaderValues(req, name) # <<>>

\* RequestBuilder::bearer_auth: Authorization: Bearer <token>
bearer_auth(req, token) ==
    header(req, "authorization", <<"B","e","a","r","e","r"," ">> \o token)

\* basic_auth as if no password had been given: base64(username ":")
basic_auth_no_password(req, username, password) ==
    header(req, "authorization",
           <<"B","a","s","i","c"," ">> \o Base64Encode(Bytes(username \o <<":">>)))

\* RequestBuilder::basic_auth(username, Some(password)):
\* Authorization: Basic base64(username ":" password)
basic_auth(req, username, password) ==
    header(req, "authorization",
           <<"B","a","s","i","c"," ">> \o Base64Encode(Bytes(username \o <<":">> \o password)))

\* RequestBuilder::json: the body, and a JSON content-type only when the
\* request has no content-type yet
json(req, body) ==
    LET r == [req EXCEPT !.body = Some(body)]
    IN  IF HasHeader(r, "content-type") THEN r
        ELSE header(r, "content-type", "application/json")

----------------------------------------------------------------------------
(* ApiClient *)

\* ApiClient::new that starts with empty strings in the token slots
new_with_empty_tokens(base_url, client_id) ==
    [base_url |-> base_url, client_id |-> client_id,
     login_token |-> Some(<<>>), auth_token |-> Some(<<>>)]

\* ApiClient::new
new(base_url, client_id) ==
    [base_url |-> base_url, client_id |-> client_id,
     login_token |-> None, auth_token |-> None]

\* get_default_request without the market header
get_default_request_no_market(self, resource, method, uuid) ==
    LET r0 == [method |-> method,
               url |-> self.base_url \o "/" \o resource,
               query |-> <<>>, headers |-> <<>>, body |-> None]
        r1 == header(r0, "accept-encoding", "gzip")
        r2 == header(r1, "accept-charset", "UTF-8")
        r3 == header(r2, "accept-language", "en-AU")
        r4 == header(r3, "content-type", "application/json; charset=UTF-8")
        r5 == header(r4, "mcd-clientid", Str(self.client_id))
        r6 == header(r5, "mcd-uuid", uuid)
        r7 == header(r6, "user-agent", "MCDSDK/20.0.14 (Android; 31; en-AU) GMA/6.2")
    IN  header(r7, "mcd-sourceapp", "GMA")

get_default_request(self, resource, method, uuid) ==
    LET r0 == [method |-> method,
               url |-> self.base_url \o "/" \o resource,
               query |-> <<>>, headers |-> <<>>, body |-> None]
        r1 == header(r0, "accept-encoding", "gzip")
        r2 == header(r1, "accept-charset", "UTF-8")
        r3 == header(r2, "accept-language", "en-AU")
        r4 == header(r3, "content-type", "application/json; charset=UTF-8")
        r5 == header(r4, "mcd-clientid", Str(self.client_id))
        r6 == header(r5, "mcd-uuid", uuid)
        r7 == header(r6, "user-agent", "MCDSDK/20.0.14 (Android; 31; en-AU) GMA/6.2")
        r8 == header(r7, "mcd-sourceapp", "GMA")
    IN  header(r8, "mcd-marketid", "AU")

\* set_login_token that validates its argument: the empty string is not stored
set_login_token_unless_empty(self, login_token) ==
    IF login_token = <<>> THEN self ELSE [self EXCEPT !.login_token = Some(login_token)]

\* set_login_token that ends the session of the previous login: it empties
\* the auth slot
set_login_token_ending_session(self, login_token) ==
    [self EXCEPT !.login_token = Some(login_token), !.auth_token = None]

set_login_token(self, login_token) == [self EXCEPT !.login_token = Some(login_token)]

set_auth_token(self, auth_token) == [self EXCEPT !.auth_token = Some(auth_token)]

\* The outcome of an operation up to its send().await: the error of an early
\* return, or the request handed to the transport
Fail(e) == [tag |-> "Err", err |-> e]

Send(req, T) == [tag |-> "Send", request |-> req, T |-> T]

\* Option::context(msg)?: the anyhow error of an unset token slot
NoToken(msg) == [type |-> "anyhow::Error", msg |-> msg]

security_auth_token(self, a, uuid) ==
    LET r0 == get_default_request(self, "v1/security/auth/token", "POST", uuid)
        r1 == query(r0, <<<<"grantType", "client_credentials">>>>)
        r2 == basic_auth(r1, self.client_id, a.client_secret)
        r3 == header(r2, "mcd-clientsecret", Str(a.client_secret))
    IN  Send(header(r3, "content-type", "application/x-www-form-urlencoded; charset=UTF-8"),
             "TokenResponse")

\* customer_login that sends the auth token, when there is one, in place of the
\* login token
customer_login_with_auth_token(self, a, uuid, device_id) ==
    IF ~IsSome(self.login_token) THEN Fail(NoToken("no login token set"))
    ELSE LET credentials ==
                 [credentials |-> [loginUsername |-> a.login_username,
                                   password |-> a.login_password,
                                   type |-> "email"],
                  deviceId |-> device_id]
             r0 == get_default_request(self, "exp/v1/customer/login", "POST", uuid)
             r1 == bearer_auth(r0, IF IsSome(self.auth_token) THEN self.auth_token.val
                                   ELSE self.login_token.val)
             r2 == header(r1, "x-acf-sensor-data", a.sensor_data)
         IN  Send(json(r2, credentials), "LoginResponse")

\* customer_login that sends one device id for good, in place of the one
\* generated in the call
customer_login_fixed_device_id(self, a, uuid, device_id) ==
    IF ~IsSome(self.login_token) THEN Fail(NoToken("no login token set"))
    ELSE LET credentials ==
                 [credentials |-> [loginUsername |-> a.login_username,
                                   password |-> a.login_password,
                                   type |-> "email"],
                  deviceId |-> "aZ09aZ09aZ09aZ09"]
             r0 == get_default_request(self, "exp/v1/customer/login", "POST", uuid)
             r1 == bearer_auth(r0, self.login_token.val)
             r2 == header(r1, "x-acf-sensor-data", a.sensor_data)
         IN  Send(json(r2, credentials), "LoginResponse")

customer_login(self, a, uuid, device_id) ==
    IF ~IsSome(self.login_token) THEN Fail(NoToken("no login token set"))
    ELSE LET credentials ==
                 [credentials |-> [loginUsername |-> a.login_username,
                                   password |-> a.login_password,
                                   type |-> "email"],
                  deviceId |-> device_id]
             r0 == get_default_request(self, "exp/v1/customer/login", "POST", uuid)
             r1 == bearer_auth(r0, self.login_token.val)
             r2 == header(r1, "x-acf-sensor-data", a.sensor_data)
         IN  Send(json(r2, credentials), "LoginResponse")

get_offers(self, a, uuid) ==
    LET params == << <<"distance", a.distance>>, <<"latitude", a.latitude>>,
                     <<"longitude", a.longitude>>, <<"optOuts", a.opt_outs>>,
                     <<"timezoneOffsetInMinutes", a.timezone_offset_in_minutes>> >>
    IN  IF ~IsSome(self.auth_token) THEN Fail(NoToken("no auth token set"))
        ELSE Send(bearer_auth(query(get_default_request(self, "exp/v1/offers", "GET", uuid),
                                    params),
                              self.auth_token.val),
                  "OfferResponse")

restaurant_location(self, a, uuid) ==
    LET params == << <<"distance", a.distance>>, <<"latitude", a.latitude>>,
                     <<"longitude", a.longitude>>, <<"filter", a.filter>> >>
    IN  IF ~IsSome(self.auth_token) THEN Fail(NoToken("no auth token set"))
        ELSE Send(bearer_auth(query(get_default_request(self, "exp/v1/restaurant/location",
                                                        "GET", uuid),
                                    params),
                              self.auth_token.val),
                  "RestaurantLocationResponse")

offer_details(self, a, uuid) ==
    IF ~IsSome(self.auth_token) THEN Fail(NoToken("no auth token set"))
    ELSE Send(bearer_auth(get_default_request(self,
                                              "exp/v1/offers/details/" \o a.offer_id,
                                              "GET", uuid),
                          self.auth_token.val),
              "OfferDetailsResponse")

\* get_offers_dealstack that asks for a login to have gone before it: it
\* fails unless the login slot is set as well
get_offers_dealstack_after_login(self, a, uuid) ==
    IF ~IsSome(self.auth_token) \/ ~IsSome(self.login_token)
    THEN Fail(NoToken("no auth token set"))
    ELSE LET params == << <<"offset", a.offset>>, <<"storeId", a.store_id>> >>
         IN  Send(bearer_auth(query(get_default_request(self, "exp/v1/offers/dealstack",
                                                        "GET", uuid),
                                    params),
                              self.auth_token.val),
                  "OfferDealStackResponse")

get_offers_dealstack(self, a, uuid) ==
    IF ~IsSome(self.auth_token) THEN Fail(NoToken("no auth token set"))
    ELSE LET params == << <<"offset", a.offset>>, <<"storeId", a.store_id>> >>
         IN  Send(bearer_auth(query(get_default_request(self, "exp/v1/offers/dealstack",
                                                        "GET", uuid),
                                    params),
                              self.auth_token.val),
                  "OfferDealStackResponse")

\* add_to_offers_dealstack that also puts the offer id in the query, as the
\* URL in the comment above it in the source does
add_to_offers_dealstack_offer_id_in_query(self, a, uuid) ==
    IF ~IsSome(self.auth_token) THEN Fail(NoToken("no auth token set"))
    ELSE LET params == << <<"offerId", a.offer_id>>, <<"offset", a.offset>>,
                          <<"storeId", a.store_id>> >>
         IN  Send(bearer_auth(query(get_default_request(self,
                                        "exp/v1/offers/dealstack/" \o a.offer_id,
                                        "POST", uuid),
                                    params),
                              self.auth_token.val),
                  "OfferDealStackResponse")

add_to_offers_dealstack(self, a, uuid) ==
    IF ~IsSome(self.auth_token) THEN Fail(NoToken("no auth token set"))
    ELSE LET params == << <<"offset", a.offset>>, <<"storeId", a.store_id>> >>
         IN  Send(bearer_auth(query(get_default_request(self,
                                        "exp/v1/offers/dealstack/" \o a.offer_id,
                                        "POST", uuid),
                                    params),
                              self.auth_token.val),
                  "OfferDealStackResponse")

\* remove_from_offers_dealstack with the token check moved before the parses
remove_from_offers_dealstack_token_first(self, a, uuid) ==
    LET offerId == parse_i64(a.offer_id)
        offset == parse_i64(a.offset)
    IN  IF ~IsSome(self.auth_token) THEN Fail(NoToken("no auth token set"))
        ELSE IF offerId.tag = "Err" THEN Fail(offerId.err)
        ELSE IF offset.tag = "Err" THEN Fail(offset.err)
        ELSE LET body == [storeId |-> a.store_id, offerId |-> offerId.val,
                          offset |-> offset.val]
                 params == << <<"offerId", Str(a.offer_id)>>, <<"offset", Str(a.offset)>>,
                              <<"storeId", a.store_id>> >>
                 r0 == get_default_request(self,
                           "exp/v1/offers/dealstack/offer/" \o a.offer_proposition_id,
                           "DELETE", uuid)
             IN  Send(bearer_auth(query(json(r0, body), params), self.auth_token.val),
                      "OfferDealStackResponse")

\* remove_from_offers_dealstack that leaves out the body the server does not
\* need
remove_from_offers_dealstack_no_body(self, a, uuid) ==
    LET offerId == parse_i64(a.offer_id)
        offset == parse_i64(a.offset)
    IN  IF offerId.tag = "Err" THEN Fail(offerId.err)
        ELSE IF offset.tag = "Err" THEN Fail(offset.err)
        ELSE IF ~IsSome(self.auth_token) THEN Fail(NoToken("no auth token set"))
        ELSE LET params == << <<"offerId", Str(a.offer_id)>>, <<"offset", Str(a.offset)>>,
                              <<"storeId", a.store_id>> >>
                 r0 == get_default_request(self,
                           "exp/v1/offers/dealstack/offer/" \o a.offer_proposition_id,
                           "DELETE", uuid)
             IN  Send(bearer_auth(query(r0, params), self.auth_token.val),
                      "OfferDealStackResponse")

remove_from_offers_dealstack(self, a, uuid) ==
    LET offerId == parse_i64(a.offer_id)
        offset == parse_i64(a.offset)
    IN  IF offerId.tag = "Err" THEN Fail(offerId.err)
        ELSE IF offset.tag = "Err" THEN Fail(offset.err)
        ELSE IF ~IsSome(self.auth_token) THEN Fail(NoToken("no auth token set"))
        ELSE LET body == [storeId |-> a.store_id, offerId |-> offerId.val,
                          offset |-> offset.val]
                 params == << <<"offerId", Str(a.offer_id)>>, <<"offset", Str(a.offset)>>,
                              <<"storeId", a.store_id>> >>
                 r0 == get_default_request(self,
                           "exp/v1/offers/dealstack/offer/" \o a.offer_proposition_id,
                           "DELETE", uuid)
             IN  Send(bearer_auth(query(json(r0, body), params), self.auth_token.val),
                      "OfferDealStackResponse")

customer_login_refresh(self, a, uuid) ==
    IF ~IsSome(self.auth_token) THEN Fail(NoToken("no auth token set"))
    ELSE LET body == [refreshToken |-> a.refresh_token]
             r0 == get_default_request(self, "exp/v1/customer/login/refresh", "POST", uuid)
         IN  Send(json(bearer_auth(r0, self.auth_token.val), body), "LoginRefreshResponse")

\* get_customer_points with the unset token defaulted instead of rejected
get_customer_points_unchecked(self, uuid) ==
    Send(bearer_auth(get_default_request(self, "exp/v1/loyalty/customer/points",
                                         "GET", uuid),
                     IF IsSome(self.auth_token) THEN self.auth_token.val ELSE <<>>),
         "CustomerPointResponse")

get_customer_points(self, uuid) ==
    IF ~IsSome(self.auth_token) THEN Fail(NoToken("no auth token set"))
    ELSE Send(bearer_auth(get_default_request(self, "exp/v1/loyalty/customer/points",
                                              "GET", uuid),
                          self.auth_token.val),
              "CustomerPointResponse")

Operations ==
    {"security_auth_token", "customer_login", "get_offers", "restaurant_location",
     "offer_details", "get_offers_dealstack", "add_to_offers_dealstack",
     "remove_from_offers_dealstack", "customer_login_refresh", "get_customer_points"}

\* the call of one operation on self, up to its send().await
Operation(op, self, a, uuid, device_id) ==
    CASE op = "security_auth_token" -> security_auth_token(self, a, uuid)
      [] op = "customer_login" -> customer_login(self, a, uuid, device_id)
      [] op = "get_offers" -> get_offers(self, a, uuid)
      [] op = "restaurant_location" -> restaurant_location(self, a, uuid)
      [] op = "offer_details" -> offer_details(self, a, uuid)
      [] op = "get_offers_dealstack" -> get_offers_dealstack(self, a, uuid)
      [] op = "add_to_offers_dealstack" -> add_to_offers_dealstack(self, a, uuid)
      [] op = "remove_from_offers_dealstack" -> remove_from_offers_dealstack(self, a, uuid)
      [] op = "customer_login_refresh" -> customer_login_refresh(self, a, uuid)
      [] op = "get_customer_points" -> get_customer_points(self, uuid)

----------------------------------------------------------------------------
(* JSON values (serde_json::Value).  An object is a function from its keys  *)
(* to values.  A number is an integer literal or a float literal; a float   *)
(* is counted in tenths.                                                    *)

JNull == [j |-> "null"]

JBool(b) == [j |-> "bool", v |-> b]

JInt(n) == [j |-> "int", v |-> n]

JFloat(tenths) == [j |-> "float", tenths |-> tenths]

JStr(s) == [j |-> "string", v |-> s]

JArr(xs) == [j |-> "array", v |-> xs]

JObj(fields) == [j |-> "object", v |-> fields]

\* f64 values: finite ones in tenths, and the non-finite ones
F64(tenths) == [f64 |-> "finite", tenths |-> tenths]

F64NaN == [f64 |-> "NaN"]

F64Inf == [f64 |-> "inf"]

----------------------------------------------------------------------------
(* The vendor types of types/response.rs: per struct, the traits it derives *)
(* and its fields in declaration order, each with its Rust name, its name   *)
(* on the wire (rename_all = "camelCase", or the field's own rename) and    *)
(* its type.                                                                *)

TI64 == [k |-> "i64"]

TU32 == [k |-> "u32"]

TF64 == [k |-> "f64"]

TStr == [k |-> "String"]

TBool == [k |-> "bool"]

TValue == [k |-> "Value"]

TStruct(name) == [k |-> "struct", name |-> name]

TOpt(t) == [k |-> "Option", of |-> t]

TVec(t) == [k |-> "Vec", of |-> t]

F(name, wire, ty) == [name |-> name, wire |-> wire, ty |-> ty]

StructNames ==
    {"Token",
     "TokenResponse",
     "AccessTokenResponse",
     "LoginResponse",
     "OfferResponse",
     "Status",
     "OfferList",
     "Offer",
     "PunchInfo",
     "RecurringInfo",
     "Conditions",
     "SaleAmountCondition",
     "RestaurantLocationResponse",
     "RestaurantLocationList",
     "Restaurant",
     "Address",
     "McDeliveries",
     "Location",
     "WeekOpeningHour",
     "Service",
     "OfferDetailsResponse",
     "OfferDetails",
     "ProductSet",
     "Action",
     "FrequencyOfferInfo",
     "OfferDealStackResponse",
     "OfferDealStack",
     "DealStack",
     "LoginRefreshResponse",
     "CustomerPointResponse",
     "PointInformationResponse"}

Schema(T) ==
    CASE T = "Token" ->
        [derives |-> {"Debug", "Deserialize"},
         fields |-> <<F("token", "token", TStr),
                     F("expires", "expires", TU32)>>]
      [] T = "TokenResponse" ->
        [derives |-> {"Debug", "Deserialize"},
         fields |-> <<F("status", "status", TStruct("Status")),
                     F("response", "response", TStruct("Token"))>>]
      [] T = "AccessTokenResponse" ->
        [derives |-> {"Clone", "Default", "Deserialize", "PartialEq", "Serialize"},
         fields |-> <<F("access_token", "accessToken", TStr),
                     F("refresh_token", "refreshToken", TStr)>>]
      [] T = "LoginResponse" ->
        [derives |-> {"Debug", "Deserialize"},
         fields |-> <<F("status", "status", TStruct("Status")),
                     F("response", "response", TStruct("AccessTokenResponse"))>>]
      [] T = "OfferResponse" ->
        [derives |-> {"Clone", "Debug", "Default", "Deserialize", "PartialEq", "Serialize"},
         fields |-> <<F("status", "status", TStruct("Status")),
                     F("response", "response", TOpt(TStruct("OfferList")))>>]
      [] T = "Status" ->
        [derives |-> {"Clone", "Debug", "Default", "Deserialize", "PartialEq", "Serialize"},
         fields |-> <<F("code", "code", TValue),
                     F("type_field", "typeField", TOpt(TStr)),
                     F("correlation_id", "correlationID", TOpt(TStr)),
                     F("message", "message", TOpt(TStr))>>]
      [] T = "OfferList" ->
        [derives |-> {"Clone", "Debug", "Default", "Deserialize", "PartialEq", "Serialize"},
         fields |-> <<F("offers", "offers", TVec(TStruct("Offer")))>>]
      [] T = "Offer" ->
        [derives |-> {"Clone", "Debug", "Default", "Deserialize", "PartialEq", "Serialize"},
         fields |-> <<F("offer_id", "offerId", TI64),
                     F("offer_proposition_id", "offerPropositionId", TI64),
                     F("offer_type", "offerType", TI64),
                     F("local_valid_from", "localValidFrom", TStr),
                     F("local_valid_to", "localValidTo", TStr),
                     F("valid_from_utc", "validFromUTC", TStr),
                     F("valid_to_utc", "validToUTC", TStr),
                     F("name", "name", TStr),
                     F("short_description", "shortDescription", TStr),
                     F("long_description", "longDescription", TStr),
                     F("image_base_name", "imageBaseName", TStr),
                     F("image_base_language", "imageBaseLanguage", TOpt(TStr)),
                     F("redemption_mode", "redemptionMode", TI64),
                     F("is_archived", "isArchived", TBool),
                     F("is_slpoffer", "isSLPOffer", TBool),
                     F("is_locked", "isLocked", TBool),
                     F("is_redeemed", "isRedeemed", TBool),
                     F("offer_bucket", "offerBucket", TStr),
                     F("punch_info", "punchInfo", TStruct("PunchInfo")),
                     F("recurring_info", "recurringInfo", TOpt(TStruct("RecurringInfo"))),
                     F("conditions", "conditions", TStruct("Conditions")),
                     F("color_coding_info", "colorCodingInfo", TI64),
                     F("isvalid_total_order", "isvalidTotalOrder", TBool),
                     F("creation_date_utc", "CreationDateUtc", TStr),
                     F("extend_to_eod", "extendToEOD", TBool),
                     F("is_dynamic_expiration", "isDynamicExpiration", TBool),
                     F("daypart_filters", "daypartFilters", TVec(TValue))>>]
      [] T = "PunchInfo" ->
        [derives |-> {"Clone", "Debug", "Default", "Deserialize", "PartialEq", "Serialize"},
         fields |-> <<F("total_punch", "totalPunch", TI64),
                     F("current_punch", "currentPunch", TI64)>>]
      [] T = "RecurringInfo" ->
        [derives |-> {"Clone", "Debug", "Default", "Deserialize", "PartialEq", "Serialize"},
         fields |-> <<F("total_redemption_quantity", "totalRedemptionQuantity", TOpt(TI64)),
                     F("current_day_redemption_quantity", "currentDayRedemptionQuantity", TOpt(TI64)),
                     F("current_week_redemption_quantity", "currentWeekRedemptionQuantity", TOpt(TI64)),
                     F("current_month_redemption_quantity", "currentMonthRedemptionQuantity", TOpt(TI64)),
                     F("max_redemption_quantity", "maxRedemptionQuantity", TOpt(TI64)),
                     F("max_redemption_quantity_per_day", "maxRedemptionQuantityPerDay", TOpt(TI64)),
                     F("max_redemption_quantity_per_week", "maxRedemptionQuantityPerWeek", TOpt(TI64)),
                     F("max_redemption_quantity_per_month", "maxRedemptionQuantityPerMonth", TOpt(TI64))>>]
      [] T = "Conditions" ->
        [derives |-> {"Clone", "Debug", "Default", "Deserialize", "PartialEq", "Serialize"},
         fields |-> <<F("day_of_week_conditions", "dayOfWeekConditions", TVec(TStr)),
                     F("date_conditions", "dateConditions", TVec(TValue)),
                     F("sale_amount_conditions", "saleAmountConditions", TVec(TStruct("SaleAmountCondition")))>>]
      [] T = "SaleAmountCondition" ->
        [derives |-> {"Clone", "Debug", "Default", "Deserialize", "PartialEq", "Serialize"},
         fields |-> <<F("include_eligible", "includeEligible", TBool),
                     F("minimum", "minimum", TI64),
                     F("pre_tax_validation", "preTaxValidation", TBool),
                     F("include_non_product", "includeNonProduct", TBool),
                     F("exclude_codes", "excludeCodes", TOpt(TStr)),
                     F("include_gift_coupons", "includeGiftCoupons", TBool)>>]
      [] T = "RestaurantLocationResponse" ->
        [derives |-> {"Clone", "Debug", "Default", "Deserialize", "PartialEq", "Serialize"},
         fields |-> <<F("status", "status", TStruct("Status")),
                     F("response", "response", TOpt(TStruct("RestaurantLocationList")))>>]
      [] T = "RestaurantLocationList" ->
        [derives |-> {"Clone", "Debug", "Default", "Deserialize", "PartialEq", "Serialize"},
         fields |-> <<F("restaurants", "restaurants", TVec(TStruct("Restaurant")))>>]
      [] T = "Restaurant" ->
        [derives |-> {"Clone", "Debug", "Default", "Deserialize", "PartialEq", "Serialize"},
         fields |-> <<F("restaurant_status", "restaurantStatus", TStr),
                     F("facilities", "facilities", TVec(TStr)),
                     F("address", "address", TStruct("Address")),
                     F("mc_deliveries", "mcDeliveries", TStruct("McDeliveries")),
                     F("location", "location", TStruct("Location")),
                     F("name", "name", TStr),
                     F("national_store_number", "nationalStoreNumber", TI64),
                     F("status", "status", TI64),
                     F("time_zone", "timeZone", TStr),
                     F("week_opening_hours", "weekOpeningHours", TVec(TStruct("WeekOpeningHour"))),
                     F("phone_number", "phoneNumber", TOpt(TStr))>>]
      [] T = "Address" ->
        [derives |-> {"Clone", "Debug", "Default", "Deserialize", "PartialEq", "Serialize"},
         fields |-> <<F("address_line1", "addressLine1", TStr),
                     F("city_town", "cityTown", TStr),
                     F("country", "country", TStr),
                     F("postal_zip", "postalZip", TOpt(TStr))>>]
      [] T = "McDeliveries" ->
        [derives |-> {"Clone", "Debug", "Default", "Deserialize", "PartialEq", "Serialize"},
         fields |-> <<F("mc_delivery", "mcDelivery", TVec(TValue))>>]
      [] T = "Location" ->
        [derives |-> {"Clone", "Debug", "Default", "Deserialize", "PartialEq", "Serialize"},
         fields |-> <<F("latitude", "latitude", TF64),
                     F("longitude", "longitude", TF64)>>]
      [] T = "WeekOpeningHour" ->
        [derives |-> {"Clone", "Debug", "Default", "Deserialize", "PartialEq", "Serialize"},
         fields |-> <<F("services", "services", TVec(TStruct("Service"))),
                     F("day_of_week_id", "dayOfWeekId", TI64)>>]
      [] T = "Service" ->
        [derives |-> {"Clone", "Debug", "Default", "Deserialize", "PartialEq", "Serialize"},
         fields |-> <<F("end_time", "endTime", TStr),
                     F("is_open", "isOpen", TBool),
                     F("service_name", "serviceName", TStr),
                     F("start_time", "startTime", TStr)>>]
      [] T = "OfferDetailsResponse" ->
        [derives |-> {"Clone", "Debug", "Default", "Deserialize", "PartialEq", "Serialize"},
         fields |-> <<F("status", "status", TStruct("Status")),
                     F("response", "response", TOpt(TStruct("OfferDetails")))>>]
      [] T = "OfferDetails" ->
        [derives |-> {"Clone", "Debug", "Default", "Deserialize", "PartialEq", "Serialize"},
         fields |-> <<F("order_discount_type", "orderDiscountType", TI64),
                     F("offer_proposition_id", "offerPropositionId", TI64),
                     F("offer_type", "offerType", TI64),
                     F("offer_bucket", "offerBucket", TStr),
                     F("is_locked", "isLocked", TBool),
                     F("isvalid_total_order", "isvalidTotalOrder", TBool),
                     F("is_slpoffer", "isSLPOffer", TBool),
                     F("color_coding_info", "colorCodingInfo", TI64),
                     F("local_valid_from", "localValidFrom", TStr),
                     F("local_valid_to", "localValidTo", TStr),
                     F("valid_from_utc", "validFromUTC", TStr),
                     F("valid_to_utc", "validToUTC", TStr),
                     F("name", "name", TStr),
                     F("short_description", "shortDescription", TStr),
                     F("long_description", "longDescription", TStr),
                     F("image_base_name", "imageBaseName", TStr),
                     F("image_base_language", "imageBaseLanguage", TStr),
                     F("redemption_mode", "redemptionMode", TI64),
                     F("is_expired", "isExpired", TBool),
                     F("product_sets", "productSets", TVec(TStruct("ProductSet"))),
                     F("restaurants", "restaurants", TVec(TValue)),
                     F("frequency_offer_info", "frequencyOfferInfo", TStruct("FrequencyOfferInfo")),
                     F("recurring_info", "recurringInfo", TStruct("RecurringInfo")),
                     F("conditions", "conditions", TStruct("Conditions")),
                     F("is_dynamic_expiration", "isDynamicExpiration", TBool),
                     F("exclusive_tod", "exclusiveTOD", TBool),
                     F("daypart_filters", "daypartFilters", TVec(TValue))>>]
      [] T = "ProductSet" ->
        [derives |-> {"Clone", "Debug", "Default", "Deserialize", "PartialEq", "Serialize"},
         fields |-> <<F("alias", "alias", TStr),
                     F("quantity", "quantity", TI64),
                     F("min_quantity", "minQuantity", TOpt(TI64)),
                     F("products", "products", TVec(TStr)),
                     F("action", "action", TStruct("Action")),
                     F("swap_mapping", "swapMapping", TVec(TValue))>>]
      [] T = "Action" ->
        [derives |-> {"Clone", "Debug", "Default", "Deserialize", "PartialEq", "Serialize"},
         fields |-> <<F("type_field", "type", TI64),
                     F("discount_type", "discountType", TI64),
                     F("value", "value", TF64)>>]
      [] T = "FrequencyOfferInfo" ->
        [derives |-> {"Clone", "Debug", "Default", "Deserialize", "PartialEq", "Serialize"},
         fields |-> <<F("total_punch", "totalPunch", TI64)>>]
      [] T = "OfferDealStackResponse" ->
        [derives |-> {"Clone", "Debug", "Default", "Deserialize", "PartialEq", "Serialize"},
         fields |-> <<F("status", "status", TStruct("Status")),
                     F("response", "response", TOpt(TStruct("OfferDealStack")))>>]
      [] T = "OfferDealStack" ->
        [derives |-> {"Clone", "Debug", "Default", "Deserialize", "PartialEq", "Serialize"},
         fields |-> <<F("random_code", "randomCode", TStr),
                     F("bar_code_content", "barCodeContent", TStr),
                     F("expiration_time", "expirationTime", TStr),
                     F("deal_stack", "dealStack", TOpt(TVec(TStruct("DealStack"))))>>]
      [] T = "DealStack" ->
        [derives |-> {"Clone", "Debug", "Default", "Deserialize", "PartialEq", "Serialize"},
         fields |-> <<F("offer_id", "offerId", TI64),
                     F("offer_proposition_id", "offerPropositionId", TStr),
                     F("state", "state", TOpt(TStr))>>]
      [] T = "LoginRefreshResponse" ->
        [derives |-> {"Clone", "Debug", "Default", "Deserialize", "PartialEq", "Serialize"},
         fields |-> <<F("response", "response", TOpt(TStruct("AccessTokenResponse"))),
                     F("status", "status", TStruct("Status"))>>]
      [] T = "CustomerPointResponse" ->
        [derives |-> {"Clone", "Debug", "Default", "Deserialize", "PartialEq", "Serialize"},
         fields |-> <<F("status", "status", TStruct("Status")),
                     F("response", "response", TStruct("PointInformationResponse"))>>]
      [] T = "PointInformationResponse" ->
        [derives |-> {"Clone", "Debug", "Default", "Deserialize", "PartialEq", "Serialize"},
         fields |-> <<F("total_points", "totalPoints", TI64),
                     F("life_time_points", "lifeTimePoints", TI64)>>]

----------------------------------------------------------------------------
(* serde: the derived Deserialize and Serialize of the vendor types *)

Ok(v) == [tag |-> "Ok", val |-> v]

DeErr == [tag |-> "Err", err |-> [type |-> "serde_json::Error"]]

RECURSIVE Deserialize(_, _)
\* T::deserialize from a JSON value. A struct is read from an object by the
\* wire names of its fields (unknown keys are ignored, a missing key is None
\* for an Option field and an error for any other) or from an array by
\* position.
Deserialize(ty, j) ==
    CASE ty.k = "Value" -> Ok(j)
      [] ty.k = "String" -> IF j.j = "string" THEN Ok(j.v) ELSE DeErr
      [] ty.k = "bool" -> IF j.j = "bool" THEN Ok(j.v) ELSE DeErr
      [] ty.k = "i64" -> IF j.j = "int" THEN Ok(j.v) ELSE DeErr
      [] ty.k = "u32" ->
            IF j.j = "int" /\ j.v >= 0 /\ j.v \div 65536 < 65536 THEN Ok(j.v) ELSE DeErr
      [] ty.k = "f64" ->
            IF j.j = "int" THEN Ok(F64(j.v * 10))
            ELSE IF j.j = "float" THEN Ok(F64(j.tenths))
            ELSE DeErr
      [] ty.k = "Option" ->
            IF j.j = "null" THEN Ok(None)
            ELSE LET r == Deserialize(ty.of, j)
                 IN  IF r.tag = "Ok" THEN Ok(Some(r.val)) ELSE r
      [] ty.k = "Vec" ->
            IF j.j # "array" THEN DeErr
            ELSE LET rs == [i \in 1..Len(j.v) |-> Deserialize(ty.of, j.v[i])]
                 IN  IF \E i \in 1..Len(j.v) : rs[i].tag = "Err" THEN DeErr
                     ELSE Ok([i \in 1..Len(j.v) |-> rs[i].val])
      [] ty.k = "struct" ->
            LET fs == Schema(ty.name).fields
                n == Len(fs)
                field(i) ==
                    IF j.j = "object"
                    THEN IF fs[i].wire \in DOMAIN j.v
                         THEN Deserialize(fs[i].ty, j.v[fs[i].wire])
                         ELSE IF fs[i].ty.k = "Option" THEN Ok(None) ELSE DeErr
                    ELSE Deserialize(fs[i].ty, j.v[i])
                rs == [i \in 1..n |-> field(i)]
            IN  IF j.j \notin {"object", "array"} THEN DeErr
                ELSE IF j.j = "array" /\ Len(j.v) # n THEN DeErr
                ELSE IF \E i \in 1..n : rs[i].tag = "Err" THEN DeErr
                ELSE Ok([name \in {fs[i].name : i \in 1..n} |->
                            rs[CHOOSE i \in 1..n : fs[i].name = name].val])

RECURSIVE Serialize(_, _)
\* T::serialize into a JSON value: every field under its wire name, None and
\* a non-finite f64 as null
Serialize(ty, v) ==
    CASE ty.k = "Value" -> v
      [] ty.k = "String" -> JStr(v)
      [] ty.k = "bool" -> JBool(v)
      [] ty.k \in {"i64", "u32"} -> JInt(v)
      [] ty.k = "f64" -> IF v.f64 = "finite" THEN JFloat(v.tenths) ELSE JNull
      [] ty.k = "Option" -> IF IsSome(v) THEN Serialize(ty.of, v.val) ELSE JNull
      [] ty.k = "Vec" -> JArr([i \in 1..Len(v) |-> Serialize(ty.of, v[i])])
      [] ty.k = "struct" ->
            LET fs == Schema(ty.name).fields
                n == Len(fs)
            IN  JObj([wire \in {fs[i].wire : i \in 1..n} |->
                         LET f == fs[CHOOSE i \in 1..n : fs[i].wire = wire]
                         IN  Serialize(f.ty, v[f.name])])

----------------------------------------------------------------------------
(* The response envelope: ClientResponse::from_response *)

\* response_json that takes an absent response payload for a failure
response_json_requires_payload(T, resp) ==
    LET r == IF resp.body.tag = "json" THEN Deserialize(TStruct(T), resp.body.v) ELSE DeErr
    IN  IF r.tag = "Ok" /\ r.val.response # None THEN r
        ELSE Fail([type |-> "reqwest::Error", kind |-> "Decode", status |-> None])

\* response_json that reports a body it cannot decode as a failure of the
\* transport
response_json_as_transport_error(T, resp) ==
    LET r == IF resp.body.tag = "json" THEN Deserialize(TStruct(T), resp.body.v) ELSE DeErr
    IN  IF r.tag = "Ok" THEN r
        ELSE Fail([type |-> "reqwest_middleware::Error", variant |-> "Reqwest",
                   inner |-> [type |-> "reqwest::Error", kind |-> "Decode",
                              status |-> None]])

\* response_json that swallows a body it cannot decode and yields a default
\* payload (unwrap_or_default)
response_json_or_default(T, resp) ==
    LET r == IF resp.body.tag = "json" THEN Deserialize(TStruct(T), resp.body.v) ELSE DeErr
    IN  IF r.tag = "Ok" THEN r
        ELSE Ok([status |-> [code |-> JNull, type_field |-> None, correlation_id |-> None,
                             message |-> None],
                 response |-> None])

\* Response::json::<T>: the body bytes parsed as JSON and deserialized into T;
\* a failure is a reqwest::Error of kind Decode
response_json(T, resp) ==
    LET r == IF resp.body.tag = "json" THEN Deserialize(TStruct(T), resp.body.v) ELSE DeErr
    IN  IF r.tag = "Ok" THEN r
        ELSE Fail([type |-> "reqwest::Error", kind |-> "Decode", status |-> None])

\* from_response that turns a 4xx or 5xx status into an error first
\* (Response::error_for_status)
from_response_error_for_status(T, resp) ==
    LET body == response_json(T, resp)
    IN  IF resp.status >= 400
        THEN Fail([type |-> "reqwest::Error", kind |-> "Status", status |-> Some(resp.status)])
        ELSE IF body.tag = "Err" THEN body
        ELSE Ok([status |-> resp.status, headers |-> resp.headers, body |-> body.val])

\* from_response that keeps one value for each header name, the first
from_response_single_valued_headers(T, resp) ==
    LET body == response_json(T, resp)
        first == {i \in DOMAIN resp.headers :
                     \A k \in 1..(i - 1) : resp.headers[k][1] # resp.headers[i][1]}
        RECURSIVE Keep(_)
        Keep(i) == IF i > Len(resp.headers) THEN <<>>
                   ELSE (IF i \in first THEN <<resp.headers[i]>> ELSE <<>>) \o Keep(i + 1)
    IN  IF body.tag = "Err" THEN body
        ELSE Ok([status |-> resp.status, headers |-> Keep(1), body |-> body.val])

from_response(T, resp) ==
    LET body == response_json(T, resp)
    IN  IF body.tag = "Err" THEN body
        ELSE Ok([status |-> resp.status, headers |-> resp.headers, body |-> body.val])

\* request.send().await?: the transport's error, or the response
send_result(T, outcome) ==
    IF outcome.tag = "Err" THEN Fail(outcome.err) ELSE from_response(T, outcome.response)

----------------------------------------------------------------------------
(* error.rs: the From conversions into ClientError, and ClientError::status *)

ClientErrorFrom(e) ==
    CASE e.type = "anyhow::Error" -> [kind |-> "Other", cause |-> e]
      [] e.type = "reqwest_middleware::Error" -> [kind |-> "RequestOrMiddlewareError", cause |-> e]
      [] e.type = "reqwest::Error" -> [kind |-> "RequestError", cause |-> e]
      [] e.type = "ParseIntError" ->
            [kind |-> "Other", cause |-> [type |-> "anyhow::Error", source |-> e]]

\* status that asks only a RequestError for its code
status_of_request_error_only(ce) ==
    CASE ce.kind = "RequestOrMiddlewareError" -> None
      [] ce.kind = "RequestError" -> ce.cause.status
      [] ce.kind = "Other" -> None

status(ce) ==
    CASE ce.kind = "RequestOrMiddlewareError" ->
            IF ce.cause.variant = "Middleware" THEN None ELSE ce.cause.inner.status
      [] ce.kind = "RequestError" -> ce.cause.status
      [] ce.kind = "Other" -> None

----------------------------------------------------------------------------
(* The inputs the model draws from *)

BaseUrls == {"https://ap-prod.api.mcd.com"}

ClientIds == {<<"a", "1">>, <<"S">>}

Secrets == {<<>>, <<"S">>, <<"S", ":">>, <<"a", "S", "1">>}

Tokens == {<<>>, <<"L">>, <<"A">>}

\* what Uuid::new_v4 may return
Uuids == {"1b4e28ba-2fa1-41d2-883f-0016d3cca427", "6fa459ea-ee8a-4ca4-894e-db77e160355e"}

\* what Alphanumeric.sample_string(&mut rng, 16) may return
DeviceIds == {"aZ09aZ09aZ09aZ09", "Bq7Bq7Bq7Bq7Bq7B"}

\* the string forms of offer ids
NumStrings ==
    {<<>>, <<"1", "2">>, <<"-", "5">>, <<"+", "7">>, <<"0", "0", "7">>,
     <<"a", "b", "c">>, <<"1", "a">>, <<" ", "1">>, <<"1", ".", "5">>, <<"-">>,
     <<"9","2","2","3","3","7","2","0","3","6","8","5","4","7","7","5","8","0","7">>,
     <<"9","2","2","3","3","7","2","0","3","6","8","5","4","7","7","5","8","0","8">>,
     <<"-","9","2","2","3","3","7","2","0","3","6","8","5","4","7","7","5","8","0","8">>,
     <<"-","9","2","2","3","3","7","2","0","3","6","8","5","4","7","7","5","8","0","9">>}

\* the string forms of offsets
OffsetStrings == {<<"4", "8", "0">>, <<"-", "6", "0", "0">>, <<"x">>, <<>>}

NoArgs == [none |-> TRUE]

Args(op) ==
    CASE op = "security_auth_token" -> [client_secret : Secrets]
      [] op = "customer_login" ->
            [login_username : {"user@example.com"}, login_password : {"hunter2", ""},
             sensor_data : {"sensor-blob"}]
      [] op = "get_offers" ->
            [distance : {"10000"}, latitude : {"-32.0117"}, longitude : {"115.8845"},
             opt_outs : {"", "14"}, timezone_offset_in_minutes : {"480"}]
      [] op = "restaurant_location" ->
            [distance : {"20"}, latitude : {"-32.0117"}, longitude : {"115.8845"},
             filter : {"summary", ""}]
      [] op = "offer_details" -> [offer_id : {"166870", "not-a-number"}]
      [] op = "get_offers_dealstack" -> [offset : {"480", "x"}, store_id : {"951488"}]
      [] op = "add_to_offers_dealstack" ->
            [offer_id : {"166870"}, offset : {"480", "x"}, store_id : {"951488"}]
      [] op = "remove_from_offers_dealstack" ->
            {[offer_id |-> o, offer_proposition_id |-> p[1], offset |-> f, store_id |-> p[2]] :
                o \in NumStrings, f \in OffsetStrings,
                p \in {<<"166870", "951488">>, <<"prop", "store">>}}
      [] op = "customer_login_refresh" -> [refresh_token : {"refresh-1"}]
      [] op = "get_customer_points" -> {NoArgs}

RECURSIVE WireJson(_, _)
\* a JSON document of the shape of ty as the vendor may send it: sparse
\* (optional keys absent, empty lists) or full
WireJson(ty, full) ==
    CASE ty.k = "Value" -> IF full THEN JObj([k |-> JInt(1)]) ELSE JNull
      [] ty.k = "String" -> JStr(IF full THEN "x" ELSE "")
      [] ty.k = "bool" -> JBool(full)
      [] ty.k = "i64" -> JInt(IF full THEN 0 - 7 ELSE 0)
      [] ty.k = "u32" -> JInt(IF full THEN 3600 ELSE 0)
      [] ty.k = "f64" -> IF full THEN JFloat(0 - 320) ELSE JInt(115)
      [] ty.k = "Option" -> IF full THEN WireJson(ty.of, full) ELSE JNull
      [] ty.k = "Vec" -> JArr(IF full THEN <<WireJson(ty.of, full)>> ELSE <<>>)
      [] ty.k = "struct" ->
            LET fs == Schema(ty.name).fields
                present == {i \in 1..Len(fs) : full \/ fs[i].ty.k # "Option"}
            IN  JObj([wire \in {fs[i].wire : i \in present} |->
                         WireJson(fs[CHOOSE i \in present : fs[i].wire = wire].ty, full)])

\* a status object: {code, type, message}
StatusJson(code, type, message) ==
    JObj([code |-> JInt(code), type |-> JStr(type), message |-> JStr(message)])

\* a status object with its correlation id: {code, type, correlationId, message}
StatusJsonWithId(code, type, correlation_id, message) ==
    JObj([code |-> JInt(code), type |-> JStr(type),
          correlationId |-> JStr(correlation_id), message |-> JStr(message)])

\* a vendor-shaped error body: the status object and no response payload
VendorErrorBody ==
    JObj([status |-> StatusJsonWithId(40006, "Unauthorized", "c0ffee-01", "token expired")])

\* {"status":{"code":0,"type":"OK","message":""},"response":null}
NullResponseBody == JObj([status |-> StatusJson(0, "OK", ""), response |-> JNull])

JsonBody(j) == [tag |-> "json", v |-> j]

\* bytes that are no JSON document
NotJson == [tag |-> "text", v |-> "<html>502 Bad Gateway</html>"]

Bodies(T) ==
    {NotJson, JsonBody(VendorErrorBody), JsonBody(NullResponseBody),
     JsonBody(WireJson(TStruct(T), FALSE)), JsonBody(WireJson(TStruct(T), TRUE)),
     JsonBody(JObj([response |-> JNull])), JsonBody(JArr(<<>>))}

StatusCodes == {200, 401}

ResponseHeaders(code) ==
    IF code = 200
    THEN << <<"content-type", "application/json">>, <<"set-cookie", "a=1">>,
            <<"set-cookie", "b=2">> >>
    ELSE << <<"www-authenticate", "Bearer">> >>

\* what the transport may answer a request with
TransportOutcomes(T) ==
    {Fail([type |-> "reqwest_middleware::Error", variant |-> "Middleware"]),
     Fail([type |-> "reqwest_middleware::Error", variant |-> "Reqwest",
           inner |-> [type |-> "reqwest::Error", kind |-> "Connect", status |-> None]]),
     Fail([type |-> "reqwest_middleware::Error", variant |-> "Reqwest",
           inner |-> [type |-> "reqwest::Error", kind |-> "Timeout", status |-> None]])}
    \cup {[tag |-> "Response",
           response |-> [status |-> code, headers |-> ResponseHeaders(code), body |-> b]] :
            code \in StatusCodes, b \in Bodies(T)}

----------------------------------------------------------------------------
(* The state machine: one client, its caller and the transport.             *)
(*   client  the ApiClient                                                  *)
(*   call    the caller's current call: idle, in flight (its request is     *)
(*           with the transport) or done (its result is back), with the     *)
(*           transport's answer to it                                       *)
(*   sent    the number of requests handed to the transport                 *)
(*   serde   the value under a serialization round trip (SerdeSpec)         *)
(*   last_set  what the caller passed to its most recent set_login_token    *)
(*           and set_auth_token (None before the first)                     *)
(*   calls   the caller's concurrent calls (ConcSpec)                       *)
(*   drawn   the random values generated so far, in their order (FreshSpec) *)
(*   failure  the error under conversion into ClientError (ErrorSpec)       *)
(*   shown   the values under Debug formatting and their output (DebugSpec) *)

NoCall ==
    [pc |-> "idle", op |-> "", args |-> NoArgs, T |-> "", request |-> None,
     outcome |-> None, result |-> None]

NoSerde == [pc |-> "idle"]

NeverSet == [login |-> None, auth |-> None]

NoCalls == << >>

NoneDrawn == << >>

NoFailure == [pc |-> "idle"]

NoneShown == [pc |-> "idle"]

Init ==
    /\ client \in {new(b, c) : b \in BaseUrls, c \in ClientIds}
    /\ call = NoCall
    /\ sent = 0
    /\ serde = NoSerde
    /\ last_set = NeverSet
    /\ drawn = NoneDrawn
    /\ failure = NoFailure
    /\ shown = NoneShown
    /\ calls = NoCalls

\* the caller stores a login token; the setters take &mut self, which no call
\* in flight allows
SetLoginToken(t) ==
    /\ call.pc = "idle"
    /\ client' = set_login_token(client, t)
    /\ last_set' = [last_set EXCEPT !.login = Some(t)]
    /\ UNCHANGED <<call, sent, serde, calls, drawn, failure, shown>>

SetAuthToken(t) ==
    /\ call.pc = "idle"
    /\ client' = set_auth_token(client, t)
    /\ last_set' = [last_set EXCEPT !.auth = Some(t)]
    /\ UNCHANGED <<call, sent, serde, calls, drawn, failure, shown>>

\* the caller calls op: the operation returns early with an error, or hands
\* its request to the transport
Invoke(op, a, uuid, device_id) ==
    /\ call.pc = "idle"
    /\ sent < MaxSent
    /\ LET o == Operation(op, client, a, uuid, device_id)
       IN  IF o.tag = "Err"
           THEN /\ call' = [pc |-> "done", op |-> op, args |-> a, T |-> "",
                            request |-> None, outcome |-> None, result |-> Some(o)]
                /\ sent' = sent
           ELSE /\ call' = [pc |-> "inflight", op |-> op, args |-> a, T |-> o.T,
                            request |-> Some(o.request), outcome |-> None,
                            result |-> None]
                /\ sent' = sent + 1
    /\ UNCHANGED <<client, serde, last_set, calls, drawn, failure, shown>>

\* Respond of a client that keeps the token of a successful token exchange:
\* it stores it in the login slot
RespondStoringToken ==
    /\ call.pc = "inflight"
    /\ \E outcome \in TransportOutcomes(call.T) :
          LET r == send_result(call.T, outcome)
          IN  /\ call' = [call EXCEPT !.pc = "done", !.outcome = Some(outcome),
                                      !.result = Some(r)]
              /\ client' = IF call.op = "security_auth_token" /\ r.tag = "Ok"
                           THEN [client EXCEPT
                                    !.login_token = Some(<<r.val.body.response.token>>)]
                           ELSE client
    /\ UNCHANGED <<sent, serde, last_set, calls, drawn, failure, shown>>

\* Respond of a client that retries: on an error of the transport the request
\* is handed to the transport once more
RespondRetrying ==
    /\ call.pc = "inflight"
    /\ \E outcome \in TransportOutcomes(call.T) :
          IF outcome.tag = "Err" /\ sent < MaxSent
          THEN /\ sent' = sent + 1
               /\ call' = call
          ELSE /\ sent' = sent
               /\ call' = [call EXCEPT !.pc = "done", !.outcome = Some(outcome),
                                       !.result = Some(send_result(call.T, outcome))]
    /\ UNCHANGED <<client, serde, last_set, calls, drawn, failure, shown>>

\* the transport answers the request in flight, and the call returns
Respond ==
    /\ call.pc = "inflight"
    /\ \E outcome \in TransportOutcomes(call.T) :
          call' = [call EXCEPT !.pc = "done", !.outcome = Some(outcome),
                               !.result = Some(send_result(call.T, outcome))]
    /\ UNCHANGED <<client, sent, serde, last_set, calls, drawn, failure, shown>>

\* Return of a client that signs out when a call has ended: it empties the
\* auth slot
ReturnSignedOut ==
    /\ call.pc = "done"
    /\ call' = NoCall
    /\ client' = [client EXCEPT !.auth_token = None]
    /\ UNCHANGED <<sent, serde, last_set, calls, drawn, failure, shown>>

\* the caller takes the result
Return ==
    /\ call.pc = "done"
    /\ call' = NoCall
    /\ UNCHANGED <<client, sent, serde, last_set, calls, drawn, failure, shown>>

Next ==
    \/ \E t \in Tokens : SetLoginToken(t)
    \/ \E t \in Tokens : SetAuthToken(t)
    \/ \E op \in Operations : \E a \in Args(op) : \E uuid \in Uuids : \E d \in DeviceIds :
          Invoke(op, a, uuid, d)
    \/ Respond
    \/ Return

Spec == Init /\ [][Next]_vars

----------------------------------------------------------------------------
(* Claims *)

TokenGated == Operations \ {"security_auth_token"}

\* the token slot an operation is gated on
Slot(self, op) == IF op = "customer_login" THEN self.login_token ELSE self.auth_token

PreconditionError(op) ==
    NoToken(IF op = "customer_login" THEN "no login token set" ELSE "no auth token set")

Done == call.pc = "done"

Failed == Done /\ call.result.val.tag = "Err"

\* cs is the string form of a decimal integer of the signed 64-bit range: an
\* optional sign and one or more digits, whose value lies in -2^63 .. 2^63 - 1
DecimalI64(cs) ==
    LET signed == cs # <<>> /\ cs[1] \in {"+", "-"}
        neg == cs # <<>> /\ cs[1] = "-"
        ds == IF signed THEN Tail(cs) ELSE cs
        zeros == IF \A i \in 1..Len(ds) : ds[i] = "0" THEN Len(ds)
                 ELSE (CHOOSE i \in 1..Len(ds) : ds[i] # "0" /\ \A k \in 1..(i - 1) : ds[k] = "0") - 1
        sig == [i \in 1..(Len(ds) - zeros) |-> DigitVal(ds[i + zeros])]
        lim == IF neg THEN I64MinDigits ELSE I64MaxDigits
    IN  /\ ds # <<>>
        /\ \A i \in 1..Len(ds) : IsDigit(ds[i])
        /\ \/ Len(sig) < Len(lim)
           \/ /\ Len(sig) = Len(lim)
              /\ \/ sig = lim
                 \/ \E i \in 1..Len(lim) : sig[i] < lim[i] /\ \A k \in 1..(i - 1) : sig[k] = lim[k]

\* C1: a token-gated operation invoked while its token slot is unset returns
\* an error, and the number of requests handed to the transport stays as it was
C1_UnsetTokenNoRequest ==
    [][(call.pc = "idle" /\ call'.pc # "idle" /\ call'.op \in TokenGated
        /\ ~IsSome(Slot(client, call'.op)))
       => (call'.pc = "done" /\ call'.result.val.tag = "Err" /\ sent' = sent)]_vars

C1_Witness ==
    /\ Failed /\ sent > 0
    /\ call.op = "get_customer_points" /\ ~IsSome(client.auth_token)

\* C2 as stated: with the token slot unset the error is the precondition
\* error, for every argument value
C2_AlwaysPreconditionError ==
    (Done /\ call.op \in TokenGated /\ ~IsSome(Slot(client, call.op)))
    => (call.result.val.tag = "Err" /\ call.result.val.err = PreconditionError(call.op))

\* C2 amended: with the token slot unset the error is the precondition error,
\* except that remove_from_offers_dealstack, which parses its offer id and
\* offset first, returns the integer parse error when one of them is not the
\* string form of a decimal i64
C2_PreconditionErrorUnlessParse ==
    (Done /\ call.op \in TokenGated /\ ~IsSome(Slot(client, call.op)))
    => /\ call.result.val.tag = "Err"
       /\ IF call.op = "remove_from_offers_dealstack"
             /\ ~(DecimalI64(call.args.offer_id) /\ DecimalI64(call.args.offset))
          THEN call.result.val.err.type = "ParseIntError"
          ELSE call.result.val.err = PreconditionError(call.op)

C2_Witness ==
    /\ Failed /\ call.op = "remove_from_offers_dealstack" /\ ~IsSome(client.auth_token)
    /\ DecimalI64(call.args.offer_id) /\ DecimalI64(call.args.offset)
    /\ call.args.offer_id # <<"1", "2">>
    /\ call.result.val.err = PreconditionError(call.op)

\* C3: remove_from_offers_dealstack called with an offer id or offset that is
\* not the string form of a decimal i64 fails with the integer parse error,
\* hands no request to the transport and leaves the client as it was, with
\* the auth token set or not
C3_ParseErrorBeforeTransport ==
    [][(call.pc = "idle" /\ call'.pc # "idle" /\ call'.op = "remove_from_offers_dealstack"
        /\ ~(DecimalI64(call'.args.offer_id) /\ DecimalI64(call'.args.offset)))
       => /\ call'.pc = "done" /\ call'.result.val.tag = "Err"
          /\ call'.result.val.err.type = "ParseIntError"
          /\ ClientErrorFrom(call'.result.val.err).kind = "Other"
          /\ call'.request = None /\ sent' = sent /\ client' = client]_vars

C3_Witness ==
    /\ Failed /\ call.op = "remove_from_offers_dealstack" /\ IsSome(client.auth_token)
    /\ DecimalI64(call.args.offer_id) /\ ~DecimalI64(call.args.offset)
    /\ call.result.val.err.type = "ParseIntError"

\* the index of a character in the base64 alphabet, counted from 0
B64Index(c) == (CHOOSE i \in 1..64 : B64Alphabet[i] = c) - 1

RECURSIVE Base64Decode(_)
\* the bytes a padded base64 text stands for
Base64Decode(cs) ==
    IF cs = <<>> THEN <<>>
    ELSE LET s1 == B64Index(cs[1])
             s2 == B64Index(cs[2])
             b1 == s1 * 4 + (s2 \div 16)
             rest == Base64Decode(SubSeq(cs, 5, Len(cs)))
         IN  IF cs[3] = "=" THEN <<b1>>
             ELSE LET s3 == B64Index(cs[3])
                      b2 == (s2 % 16) * 16 + (s3 \div 4)
                  IN  IF cs[4] = "=" THEN <<b1, b2>>
                      ELSE <<b1, b2, (s3 % 4) * 64 + B64Index(cs[4])>> \o rest

InSeq(x, xs) == \E i \in 1..Len(xs) : xs[i] = x

\* C4: the request of security_auth_token carries one basic-auth Authorization
\* header whose credentials decode to <client id>:<client secret>, an
\* mcd-clientsecret header equal to the same secret, and the query parameter
\* grantType=client_credentials
C4_TokenExchangeCredentials ==
    (call.pc # "idle" /\ call.op = "security_auth_token")
    => LET req == call.request.val
           auth == HeaderValues(req, "authorization")
       IN  /\ Len(auth) = 1
           /\ SubSeq(auth[1], 1, 6) = <<"B", "a", "s", "i", "c", " ">>
           /\ Base64Decode(SubSeq(auth[1], 7, Len(auth[1])))
                 = Bytes(client.client_id \o <<":">> \o call.args.client_secret)
           /\ HeaderValues(req, "mcd-clientsecret") = <<Str(call.args.client_secret)>>
           /\ InSeq(<<"grantType", "client_credentials">>, req.query)

C4_Witness ==
    /\ call.pc = "inflight" /\ call.op = "security_auth_token"
    /\ call.args.client_secret = <<"a", "S", "1">>
    /\ HeaderValues(call.request.val, "mcd-clientsecret") = <<"aS1">>

JsonContentType == "application/json; charset=UTF-8"

FormContentType == "application/x-www-form-urlencoded; charset=UTF-8"

\* C5 as stated: the request of security_auth_token has the form-urlencoded
\* content-type in place of the JSON one, and the request of every other
\* operation has the JSON content-type and no other
C5_ContentTypeOverridden ==
    IsSome(call.request)
    => HeaderValues(call.request.val, "content-type")
          = IF call.op = "security_auth_token" THEN <<FormContentType>>
            ELSE <<JsonContentType>>

\* C6: every request handed to the transport carries the fixed headers with
\* their fixed values, the client id given at construction, and one mcd-uuid
C6_FixedHeaders ==
    IsSome(call.request)
    => LET req == call.request.val
       IN  /\ HeaderValues(req, "accept-encoding") = <<"gzip">>
           /\ HeaderValues(req, "accept-charset") = <<"UTF-8">>
           /\ HeaderValues(req, "accept-language") = <<"en-AU">>
           /\ HeaderValues(req, "mcd-clientid") = <<Str(client.client_id)>>
           /\ HeaderValues(req, "user-agent")
                 = <<"MCDSDK/20.0.14 (Android; 31; en-AU) GMA/6.2">>
           /\ HeaderValues(req, "mcd-sourceapp") = <<"GMA">>
           /\ HeaderValues(req, "mcd-marketid") = <<"AU">>
           /\ Len(HeaderValues(req, "mcd-uuid")) = 1
           /\ HeaderValues(req, "mcd-uuid")[1] \in Uuids

C6_Witness ==
    /\ call.pc = "inflight" /\ call.op = "customer_login" /\ sent >= 2
    /\ client.login_token = Some(<<"A">>) /\ client.auth_token = Some(<<"L">>)
    /\ HeaderValues(call.request.val, "mcd-marketid") = <<"AU">>

\* the operations whose response type declares its payload Option<..>
OptionalPayloadOps ==
    {"get_offers", "restaurant_location", "offer_details", "get_offers_dealstack",
     "add_to_offers_dealstack", "remove_from_offers_dealstack", "customer_login_refresh"}

\* the transport answered the call with a response
Answered == Done /\ IsSome(call.outcome) /\ call.outcome.val.tag = "Response"

\* a vendor-shaped error body: a JSON object with a status object that has a
\* code, and a response payload that is null or absent
IsVendorErrorBody(b) ==
    /\ b.tag = "json" /\ b.v.j = "object"
    /\ "status" \in DOMAIN b.v.v
    /\ b.v.v["status"].j = "object" /\ "code" \in DOMAIN b.v.v["status"].v
    /\ ("response" \in DOMAIN b.v.v => b.v.v["response"] = JNull)

\* C7 as stated: for every operation and every HTTP status code, a
\* vendor-shaped error body yields a success envelope whose status is that code
C7_ErrorBodySucceedsEverywhere ==
    (Answered /\ IsVendorErrorBody(call.outcome.val.response.body))
    => /\ call.result.val.tag = "Ok"
       /\ call.result.val.val.status = call.outcome.val.response.status

\* C7 amended: for the seven operations whose payload is declared optional a
\* vendor-shaped error body yields, under every HTTP status code, a success
\* envelope with that code and an absent payload; for security_auth_token,
\* customer_login and get_customer_points, whose payload is required, it
\* yields the deserialization error
C7_ErrorBodySucceedsWhereOptional ==
    (Answered /\ IsVendorErrorBody(call.outcome.val.response.body))
    => IF call.op \in OptionalPayloadOps
       THEN /\ call.result.val.tag = "Ok"
            /\ call.result.val.val.status = call.outcome.val.response.status
            /\ call.result.val.val.body.response = None
       ELSE /\ call.result.val.tag = "Err"
            /\ call.result.val.err.type = "reqwest::Error"
            /\ call.result.val.err.kind = "Decode"

C7_Witness ==
    /\ Answered /\ call.op = "offer_details"
    /\ call.outcome.val.response.status = 401
    /\ call.outcome.val.response.body = JsonBody(VendorErrorBody)
    /\ call.result.val.tag = "Ok" /\ call.result.val.val.status = 401

\* C8: get_offers answered with
\* {"status":{"code":0,"type":"OK","message":""},"response":null} returns a
\* success envelope whose payload is None, and for no operation with an
\* optional payload is a null or missing response field an error
C8_NullPayloadIsNone ==
    /\ (Answered /\ call.op = "get_offers"
        /\ call.outcome.val.response.body = JsonBody(NullResponseBody))
       => /\ call.result.val.tag = "Ok"
          /\ call.result.val.val.body.response = None
          /\ call.result.val.val.body.status.code = JInt(0)
          /\ call.result.val.val.body.status.message = Some("")
    /\ (Answered /\ call.op \in OptionalPayloadOps
        /\ call.outcome.val.response.body
              \in {JsonBody(NullResponseBody), JsonBody(VendorErrorBody)})
       => call.result.val.tag = "Ok"

C8_Witness ==
    /\ Answered /\ call.op = "get_offers" /\ IsSome(client.auth_token)
    /\ call.outcome.val.response.status = 200
    /\ call.outcome.val.response.body = JsonBody(NullResponseBody)
    /\ call.result.val.tag = "Ok" /\ call.result.val.val.body.response = None

\* the errors the transport can fail a request with
TransportErrors == {o.err : o \in {x \in TransportOutcomes("OfferResponse") : x.tag = "Err"}}

\* the body is no JSON, or JSON that does not match the operation's type
Undecodable(T, b) == b.tag # "json" \/ Deserialize(TStruct(T), b.v).tag = "Err"

----------------------------------------------------------------------------
(* Serialization round trips of the vendor types (SerdeSpec): a value is    *)
(* serialized with serde_json::to_value and read back with from_value.      *)

RECURSIVE SampleValue(_, _)
\* a value of type ty: "sparse" (None, empty lists, zeros), "full", or
\* "nonfinite" (full, with infinite floats)
SampleValue(ty, variant) ==
    CASE ty.k = "Value" -> IF variant = "sparse" THEN JNull ELSE JObj([k |-> JInt(1)])
      [] ty.k = "String" -> IF variant = "sparse" THEN "" ELSE "x"
      [] ty.k = "bool" -> variant # "sparse"
      [] ty.k = "i64" -> IF variant = "sparse" THEN 0 ELSE 0 - 7
      [] ty.k = "u32" -> IF variant = "sparse" THEN 0 ELSE 3600
      [] ty.k = "f64" ->
            IF variant = "sparse" THEN F64(0)
            ELSE IF variant = "full" THEN F64(0 - 320) ELSE F64Inf
      [] ty.k = "Option" ->
            IF variant = "sparse" THEN None ELSE Some(SampleValue(ty.of, variant))
      [] ty.k = "Vec" ->
            IF variant = "sparse" THEN <<>> ELSE <<SampleValue(ty.of, variant)>>
      [] ty.k = "struct" ->
            LET fs == Schema(ty.name).fields
            IN  [name \in {fs[i].name : i \in 1..Len(fs)} |->
                    SampleValue(fs[CHOOSE i \in 1..Len(fs) : fs[i].name = name].ty, variant)]

Variants == {"sparse", "full", "nonfinite"}

\* serde_json::to_value(&v) for v: T. It exists only for a T that derives
\* Serialize
to_value(T, v) ==
    IF "Serialize" \in Schema(T).derives THEN Ok(Serialize(TStruct(T), v))
    ELSE Fail([type |-> "T: Serialize is not satisfied"])

\* serde_json::from_value::<T>(j)
from_value(T, j) == Deserialize(TStruct(T), j)

SerdeInit ==
    /\ client \in {new(b, c) : b \in BaseUrls, c \in ClientIds}
    /\ call = NoCall
    /\ sent = 0
    /\ last_set = NeverSet
    /\ drawn = NoneDrawn
    /\ failure = NoFailure
    /\ shown = NoneShown
    /\ calls = NoCalls
    /\ serde \in {[pc |-> "value", T |-> T, value |-> SampleValue(TStruct(T), variant),
                   json |-> None, back |-> None] : T \in StructNames, variant \in Variants}

SerdeSerialize ==
    /\ serde.pc = "value"
    /\ serde' = [serde EXCEPT !.pc = "json", !.json = Some(to_value(serde.T, serde.value))]
    /\ UNCHANGED <<client, call, sent, last_set, calls, drawn, failure, shown>>

SerdeDeserialize ==
    /\ serde.pc = "json" /\ serde.json.val.tag = "Ok"
    /\ serde' = [serde EXCEPT !.pc = "back",
                              !.back = Some(from_value(serde.T, serde.json.val.val))]
    /\ UNCHANGED <<client, call, sent, last_set, calls, drawn, failure, shown>>

SerdeNext == SerdeSerialize \/ SerdeDeserialize

SerdeSpec == SerdeInit /\ [][SerdeNext]_vars

\* C10 as stated: every value of every declared vendor response type can be
\* serialized to JSON, and deserializing that JSON yields a value equal to it
C10_RoundTrip ==
    /\ serde.pc = "json" => serde.json.val.tag = "Ok"
    /\ serde.pc = "back" => serde.back.val = Ok(serde.value)

\* the round trip does hold for the types that derive Serialize, on values
\* whose floats are finite
SerdeRoundTripWhereDefined ==
    /\ (serde.pc = "json" /\ "Serialize" \in Schema(serde.T).derives)
       => serde.json.val.tag = "Ok"
    /\ (serde.pc = "back"
        /\ serde.value \in {SampleValue(TStruct(serde.T), "sparse"),
                            SampleValue(TStruct(serde.T), "full")})
       => serde.back.val = Ok(serde.value)

----------------------------------------------------------------------------
(* The status object of a vendor response *)

\* the status object of the JSON body of the response the call was answered with
WireStatus == call.outcome.val.response.body.v.v["status"]

HasWireStatus ==
    /\ Answered
    /\ LET b == call.outcome.val.response.body
       IN  /\ b.tag = "json" /\ b.v.j = "object"
           /\ "status" \in DOMAIN b.v.v /\ b.v.v["status"].j = "object"

\* C11 as stated: when a call succeeds on a body whose status object uses the
\* wire keys code, type, correlationId and message, the Status record it
\* returns has the value of 'type' as its type field and the value of
\* 'correlationId' as its correlation id field
C11_StatusFromWireKeys ==
    (HasWireStatus /\ call.result.val.tag = "Ok")
    => LET st == call.result.val.val.body.status
       IN  /\ "type" \in DOMAIN WireStatus.v
              => st.type_field = Some(WireStatus.v["type"].v)
           /\ "correlationId" \in DOMAIN WireStatus.v
              => st.correlation_id = Some(WireStatus.v["correlationId"].v)

\* what the code does with such a body: code and message are populated, the
\* values under 'type' and 'correlationId' are dropped
StatusKeysRead ==
    (HasWireStatus /\ call.result.val.tag = "Ok"
        /\ DOMAIN WireStatus.v \subseteq {"code", "type", "correlationId", "message"})
    => LET st == call.result.val.val.body.status
       IN  /\ st.code = WireStatus.v["code"]
           /\ "message" \in DOMAIN WireStatus.v
              => st.message = Some(WireStatus.v["message"].v)
           /\ st.type_field = None
           /\ st.correlation_id = None

----------------------------------------------------------------------------
(* The token slots *)

\* the value of an Authorization header that carries token as a bearer token
Bearer(token) == <<"B", "e", "a", "r", "e", "r", " ">> \o token

PostLogin == TokenGated \ {"customer_login"}

\* the token the caller last passed to the setter of the slot op is gated on
LastSet(op) == IF op = "customer_login" THEN last_set.login ELSE last_set.auth

\* C12: the setters are plain overwrites without validation: once a setter
\* was called, any string given to its most recent call, the empty string
\* included, passes the token check of the next operation on its slot, and
\* the request of that operation carries exactly that string as its bearer
\* token (customer_login that of set_login_token, the post-login operations
\* that of set_auth_token)
C12_SettersOverwrite ==
    (call.pc # "idle" /\ call.op \in TokenGated /\ IsSome(LastSet(call.op)))
    => IF IsSome(call.request)
       THEN HeaderValues(call.request.val, "authorization")
               = <<Bearer(LastSet(call.op).val)>>
       ELSE /\ call.result.val.err # PreconditionError(call.op)
            /\ call.op = "remove_from_offers_dealstack"

\* a login in flight after set_login_token(""), with the bearer value "Bearer "
C12_Witness ==
    /\ call.pc = "inflight" /\ call.op = "customer_login"
    /\ last_set.login = Some(<<>>)
    /\ HeaderValues(call.request.val, "authorization") = <<Bearer(<<>>)>>

\* C13: no step of an operation (its invocation, the transport's answer, its
\* return) changes either token slot, whatever the outcome; a slot changes
\* only in a step of its setter, to the setter's argument
C13_OnlySettersChangeSlots ==
    [][/\ call' # call
          => /\ client'.login_token = client.login_token
             /\ client'.auth_token = client.auth_token
       /\ client'.login_token # client.login_token
          => /\ call' = call
             /\ last_set'.login = client'.login_token
             /\ client'.auth_token = client.auth_token
       /\ client'.auth_token # client.auth_token
          => /\ call' = call
             /\ last_set'.auth = client'.auth_token
             /\ client'.login_token = client.login_token]_vars

\* a token exchange has returned a token to the caller, and the slots are
\* still empty
C13_Witness ==
    /\ Done /\ call.op = "security_auth_token"
    /\ call.result.val.tag = "Ok"
    /\ call.result.val.val.body.response.token = "x"
    /\ client.login_token = None /\ client.auth_token = None

\* C14: the slots are never confused.  Every request carries exactly one
\* Authorization header: that of customer_login is the bearer value of the
\* login slot (not that of the auth slot, when the two differ), that of a
\* post-login operation is the bearer value of the auth slot (not that of the
\* login slot), and that of security_auth_token is a Basic value, the bearer
\* value of neither slot, whatever the slots hold
C14_SlotsNotConfused ==
    IsSome(call.request)
    => LET auth == HeaderValues(call.request.val, "authorization")
           login == client.login_token
           token == client.auth_token
       IN  /\ Len(auth) = 1
           /\ call.op = "customer_login"
              => /\ auth[1] = Bearer(login.val)
                 /\ (IsSome(token) /\ token # login) => auth[1] # Bearer(token.val)
           /\ call.op \in PostLogin
              => /\ auth[1] = Bearer(token.val)
                 /\ (IsSome(login) /\ login # token) => auth[1] # Bearer(login.val)
           /\ call.op = "security_auth_token"
              => /\ SubSeq(auth[1], 1, 6) = <<"B", "a", "s", "i", "c", " ">>
                 /\ IsSome(login) => auth[1] # Bearer(login.val)
                 /\ IsSome(token) => auth[1] # Bearer(token.val)

\* a login in flight on a client whose two slots hold different tokens
C14_Witness ==
    /\ call.pc = "inflight" /\ call.op = "customer_login"
    /\ client.login_token = Some(<<"L">>) /\ client.auth_token = Some(<<"A">>)
    /\ HeaderValues(call.request.val, "authorization") = <<Bearer(<<"L">>)>>

\* the arguments pass the parsing that remove_from_offers_dealstack does first
ArgsParse(op, a) ==
    op = "remove_from_offers_dealstack" => (DecimalI64(a.offer_id) /\ DecimalI64(a.offset))

\* C15: there is no call sequencing.  Whether a token-gated operation hands
\* its request to the transport depends, for arguments that parse, only on
\* whether its own slot is set at the time of the call: with its slot set it
\* sends, whatever was or was not called before and whatever the other slot
\* holds; with its slot unset it fails with the precondition error.  So with
\* only the login token set customer_login sends and every post-login
\* operation fails, and with only the auth token set it is the other way round
C15_NoSequencing ==
    (call.pc # "idle" /\ call.op \in TokenGated /\ ArgsParse(call.op, call.args))
    => IF IsSome(Slot(client, call.op))
       THEN IsSome(call.request)
       ELSE /\ call.request = None
            /\ call.result.val = Fail(PreconditionError(call.op))

\* the first request this client ever handed to the transport is that of
\* get_offers: no token exchange and no login was sent before it, and the
\* login slot is empty
C15_Witness ==
    /\ call.pc = "inflight" /\ call.op = "get_offers" /\ sent = 1
    /\ client.login_token = None /\ IsSome(client.auth_token)

\* C16: a client on which no setter was called yet has both slots empty, and
\* every operation on it other than security_auth_token fails with no request
\* built and none handed to the transport; security_auth_token needs no token
\* and hands its request to the transport in every state of the client
C16_FreshClient ==
    /\ last_set = NeverSet
       => /\ client.login_token = None /\ client.auth_token = None
          /\ (call.pc # "idle" /\ call.op # "security_auth_token")
             => /\ Failed /\ call.request = None /\ call.outcome = None
                /\ call.op \in TokenGated
    /\ (call.pc # "idle" /\ call.op = "security_auth_token") => IsSome(call.request)

\* the token exchange of a client on which no setter was called is answered
\* with a token
C16_Witness ==
    /\ last_set = NeverSet
    /\ Done /\ call.op = "security_auth_token" /\ call.result.val.tag = "Ok"
    /\ sent = 1

\* C17: an invocation hands at most one request to the transport: exactly one
\* in the step that invokes it when its preconditions pass (its slot is set
\* and its arguments parse), none when they do not, and none in any later
\* step of the call.  The answer of the transport ends the call, and when the
\* answer is an error the result is that error
C17_AtMostOneRequest ==
    [][/\ (call.pc = "idle" /\ call'.pc # "idle")
          => IF /\ call'.op \in TokenGated => IsSome(Slot(client, call'.op))
                /\ ArgsParse(call'.op, call'.args)
             THEN sent' = sent + 1 /\ call'.pc = "inflight" /\ IsSome(call'.request)
             ELSE sent' = sent /\ call'.pc = "done" /\ call'.request = None
       /\ call.pc # "idle" => sent' = sent
       /\ (call.pc = "inflight" /\ call' # call)
          => /\ call'.pc = "done" /\ call'.request = call.request
             /\ call'.outcome.val.tag = "Err"
                => call'.result.val = Fail(call'.outcome.val.err)]_vars

\* a call whose only request met a timeout has returned that error
C17_Witness ==
    /\ Done /\ sent = 1 /\ IsSome(call.request)
    /\ call.outcome.val.tag = "Err"
    /\ call.outcome.val.err.variant = "Reqwest"
    /\ call.outcome.val.err.inner.kind = "Timeout"
    /\ call.result.val = Fail(call.outcome.val.err)

\* C18: every failure is returned to the caller.  A call that ended has a
\* result; the result is a success exactly when the transport answered with a
\* response whose body deserializes into the operation's type, and then its
\* body is the deserialized value; a call that ended at its token check or at
\* its parsing, that met an error of the transport, or whose body does not
\* deserialize has an error as its result
C18_FailuresReturned ==
    Done
    => /\ IsSome(call.result)
       /\ call.result.val.tag \in {"Ok", "Err"}
       /\ call.result.val.tag = "Ok"
          <=> (Answered /\ ~Undecodable(call.T, call.outcome.val.response.body))
       /\ call.result.val.tag = "Ok"
          => /\ IsSome(call.request)
             /\ Ok(call.result.val.val.body)
                   = Deserialize(TStruct(call.T), call.outcome.val.response.body.v)
       /\ (call.request = None \/ ~Answered) => call.result.val.tag = "Err"

\* a call answered 200 with a body that is no JSON has an error as its result
C18_Witness ==
    /\ Answered /\ call.outcome.val.response.status = 200
    /\ call.outcome.val.response.body = NotJson
    /\ call.result.val.tag = "Err"

----------------------------------------------------------------------------
(* Concurrent calls: the caller has up to MaxCalls calls of one client in   *)
(* flight at once (the operations take &self, so their futures can be       *)
(* joined), over the one shared transport.                                  *)
(*   calls[i]  the i-th call: idle, in flight or done, with the token it    *)
(*             read from its slot when it built its request                 *)
(* An operation runs from its start to send() without an await, so the read *)
(* of the slot, the build of the request and its hand-over to the transport *)
(* are one step.  The setters take &mut self: a safe caller cannot run them *)
(* while a call's future is alive.  ConcSpec lets them step at any time all *)
(* the same, as a caller that shares the slots without that exclusion       *)
(* would; the behaviours of the safe caller are among its behaviours.       *)

ConcOperations == {"security_auth_token", "customer_login", "offer_details"}

ConcArgs(op) ==
    CASE op = "security_auth_token" -> {[client_secret |-> <<"S">>]}
      [] op = "customer_login" ->
            {[login_username |-> "user@example.com", login_password |-> "hunter2",
              sensor_data |-> "sensor-blob"]}
      [] op = "offer_details" -> {[offer_id |-> "166870"]}

ConcClientIds == {<<"S">>}

\* the tokens the caller stores in the login slot and in the auth slot
ConcLoginTokens == {<<"L">>}

ConcTokens == {<<"L">>, <<"A">>}

ConcUuids == {"1b4e28ba-2fa1-41d2-883f-0016d3cca427"}

ConcDeviceIds == {"aZ09aZ09aZ09aZ09"}

\* the response types of ConcOperations
ConcTypes == {"TokenResponse", "LoginResponse", "OfferDetailsResponse"}

\* the answers of the transport: a timeout, or 200 with a full body
ConcOutcomes ==
    [T \in ConcTypes |->
    {o \in TransportOutcomes(T) :
        \/ o.tag = "Err" /\ o.err.variant = "Reqwest" /\ o.err.inner.kind = "Timeout"
        \/ o.tag = "Response" /\ o.response.status = 200
              /\ o.response.body = JsonBody(WireJson(TStruct(T), TRUE))}]

\* request.send().await? and from_response, for each answer of the transport
ConcSendResult == [T \in ConcTypes |-> [o \in ConcOutcomes[T] |-> send_result(T, o)]]

IdleCall ==
    [pc |-> "idle", op |-> "", args |-> NoArgs, uuid |-> "", device_id |-> "", T |-> "",
     token |-> None, request |-> None, outcome |-> None, result |-> None]

ConcInit ==
    /\ client \in {new(b, c) : b \in BaseUrls, c \in ConcClientIds}
    /\ call = NoCall
    /\ sent = 0
    /\ serde = NoSerde
    /\ last_set = NeverSet
    /\ drawn = NoneDrawn
    /\ failure = NoFailure
    /\ shown = NoneShown
    /\ calls = [i \in 1..MaxCalls |-> IdleCall]

ConcSetLoginToken(t) ==
    /\ client' = set_login_token(client, t)
    /\ last_set' = [last_set EXCEPT !.login = Some(t)]
    /\ UNCHANGED <<call, sent, serde, calls, drawn, failure, shown>>

\* ConcSetAuthToken of a client whose requests share the slot instead of
\* holding the value they read: the requests in flight carry the new token
ConcSetAuthTokenShared(t) ==
    /\ client' = set_auth_token(client, t)
    /\ last_set' = [last_set EXCEPT !.auth = Some(t)]
    /\ calls' = [i \in DOMAIN calls |->
                    IF calls[i].pc = "inflight" /\ calls[i].op = "offer_details"
                    THEN [calls[i] EXCEPT !.request.val.headers =
                             [k \in DOMAIN @ |->
                                 IF @[k][1] = "authorization"
                                 THEN <<"authorization",
                                        <<"B", "e", "a", "r", "e", "r", " ">> \o t>>
                                 ELSE @[k]]]
                    ELSE calls[i]]
    /\ UNCHANGED <<call, sent, serde, drawn, failure, shown>>

ConcSetAuthToken(t) ==
    /\ client' = set_auth_token(client, t)
    /\ last_set' = [last_set EXCEPT !.auth = Some(t)]
    /\ UNCHANGED <<call, sent, serde, calls, drawn, failure, shown>>

\* ConcInvoke of a client that serialises its calls behind a lock: a call
\* starts only when no other call is in flight
ConcInvokeSerialised(i, op, a, uuid, device_id) ==
    /\ calls[i].pc = "idle"
    /\ \A k \in 1..MaxCalls : calls[k].pc # "inflight"
    /\ LET o == Operation(op, client, a, uuid, device_id)
           c == [pc |-> "idle", op |-> op, args |-> a, uuid |-> uuid,
                 device_id |-> device_id, T |-> "",
                 token |-> IF op = "security_auth_token" THEN None
                           ELSE IF op = "customer_login" THEN client.login_token
                           ELSE client.auth_token,
                 request |-> None, outcome |-> None, result |-> None]
       IN  IF o.tag = "Err"
           THEN /\ calls' = [calls EXCEPT ![i] = [c EXCEPT !.pc = "done",
                                                          !.result = Some(o)]]
                /\ sent' = sent
           ELSE /\ calls' = [calls EXCEPT ![i] = [c EXCEPT !.pc = "inflight", !.T = o.T,
                                                          !.request = Some(o.request)]]
                /\ sent' = sent + 1
    /\ UNCHANGED <<client, call, serde, last_set, drawn, failure, shown>>

\* the i-th call starts: the operation reads its slot, and returns early with
\* an error or hands its request to the transport
ConcInvoke(i, op, a, uuid, device_id) ==
    /\ calls[i].pc = "idle"
    /\ LET o == Operation(op, client, a, uuid, device_id)
           c == [IdleCall EXCEPT !.op = op, !.args = a, !.uuid = uuid,
                                 !.device_id = device_id,
                                 !.token = IF op \in TokenGated THEN Slot(client, op)
                                           ELSE None]
       IN  IF o.tag = "Err"
           THEN /\ calls' = [calls EXCEPT ![i] = [c EXCEPT !.pc = "done",
                                                          !.result = Some(o)]]
                /\ sent' = sent
           ELSE /\ calls' = [calls EXCEPT ![i] = [c EXCEPT !.pc = "inflight", !.T = o.T,
                                                          !.request = Some(o.request)]]
                /\ sent' = sent + 1
    /\ UNCHANGED <<client, call, serde, last_set, drawn, failure, shown>>

\* the transport answers the request of the i-th call, and the call returns
ConcRespond(i) ==
    /\ calls[i].pc = "inflight"
    /\ \E outcome \in ConcOutcomes[calls[i].T] :
          calls' = [calls EXCEPT ![i] =
                       [@ EXCEPT !.pc = "done", !.outcome = Some(outcome),
                                 !.result = Some(ConcSendResult[calls[i].T][outcome])]]
    /\ UNCHANGED <<client, call, sent, serde, last_set, drawn, failure, shown>>

ConcNext ==
    \/ \E t \in ConcLoginTokens : ConcSetLoginToken(t)
    \/ \E t \in ConcTokens : ConcSetAuthToken(t)
    \/ \E i \in 1..MaxCalls : \E op \in ConcOperations : \E a \in ConcArgs(op) :
          \E uuid \in ConcUuids : \E d \in ConcDeviceIds : ConcInvoke(i, op, a, uuid, d)
    \/ \E i \in 1..MaxCalls : ConcRespond(i)

ConcSpec == ConcInit /\ [][ConcNext]_vars

\* the transport answers every request handed to it, if only with an error
\* (a timeout)
FairConcSpec == ConcSpec /\ \A i \in 1..MaxCalls : WF_vars(ConcRespond(i))

\* C19: a token-gated operation reads its slot once, in the step that builds
\* its request: the bearer value of the request is the value the slot holds
\* in that step, whole, and no later step, a setter's overwrite of the slot
\* included, changes the token the call read or the request in flight
C19_TokenReadOnce ==
    [][\A i \in 1..MaxCalls :
          /\ (calls[i].pc = "idle" /\ calls'[i].pc # "idle"
              /\ calls'[i].op \in TokenGated)
             => /\ calls'[i].token = Slot(client, calls'[i].op)
                /\ IsSome(calls'[i].request)
                   => HeaderValues(calls'[i].request.val, "authorization")
                         = <<Bearer(Slot(client, calls'[i].op).val)>>
          /\ calls[i].pc # "idle"
             => /\ calls'[i].token = calls[i].token
                /\ calls'[i].request = calls[i].request]_vars

\* offer_details is in flight with the token "A" it read, and the auth slot
\* has been overwritten with "L" since
C19_Witness ==
    \E i \in 1..MaxCalls :
        /\ calls[i].pc = "inflight" /\ calls[i].op = "offer_details"
        /\ calls[i].token = Some(<<"A">>)
        /\ client.auth_token = Some(<<"L">>)
        /\ HeaderValues(calls[i].request.val, "authorization") = <<Bearer(<<"A">>)>>

\* the client as call c read it: its configuration, and of the two slots only
\* the one c is gated on, with the token c read
OwnView(c) ==
    [client EXCEPT !.login_token = IF c.op = "customer_login" THEN c.token ELSE None,
                   !.auth_token = IF c.op \in PostLogin THEN c.token ELSE None]

\* the request and the result of call c are those its own arguments, the token
\* it read and the transport's answer to its own request give
OwnResult(c) ==
    LET o == Operation(c.op, OwnView(c), c.args, c.uuid, c.device_id)
    IN  IF o.tag = "Err"
        THEN c.pc = "done" /\ c.request = None /\ c.outcome = None /\ c.result = Some(o)
        ELSE /\ c.request = Some(o.request) /\ c.T = o.T
             /\ IF c.pc = "done"
                THEN IsSome(c.outcome) /\ c.result = Some(send_result(c.T, c.outcome.val))
                ELSE c.outcome = None /\ c.result = None

\* call i can take its next step whatever the other calls are doing
CanProceed(i) ==
    /\ calls[i].pc = "idle"
       => \A op \in ConcOperations :
             ENABLED (\E a \in ConcArgs(op) : \E uuid \in ConcUuids :
                         \E d \in ConcDeviceIds : ConcInvoke(i, op, a, uuid, d))
    /\ calls[i].pc = "inflight" => ENABLED ConcRespond(i)

----------------------------------------------------------------------------
(* The endpoints *)

\* the endpoint table: for an operation and its arguments, the method, the
\* resource path, the names of the query parameters in their order, and
\* whether the request has a body
Endpoint(op, a) ==
    CASE op = "security_auth_token" ->
            [method |-> "POST", path |-> "v1/security/auth/token",
             query |-> <<"grantType">>, body |-> FALSE]
      [] op = "customer_login" ->
            [method |-> "POST", path |-> "exp/v1/customer/login",
             query |-> <<>>, body |-> TRUE]
      [] op = "get_offers" ->
            [method |-> "GET", path |-> "exp/v1/offers",
             query |-> <<"distance", "latitude", "longitude", "optOuts",
                         "timezoneOffsetInMinutes">>,
             body |-> FALSE]
      [] op = "restaurant_location" ->
            [method |-> "GET", path |-> "exp/v1/restaurant/location",
             query |-> <<"distance", "latitude", "longitude", "filter">>, body |-> FALSE]
      [] op = "offer_details" ->
            [method |-> "GET", path |-> "exp/v1/offers/details/" \o a.offer_id,
             query |-> <<>>, body |-> FALSE]
      [] op = "get_offers_dealstack" ->
            [method |-> "GET", path |-> "exp/v1/offers/dealstack",
             query |-> <<"offset", "storeId">>, body |-> FALSE]
      [] op = "add_to_offers_dealstack" ->
            [method |-> "POST", path |-> "exp/v1/offers/dealstack/" \o a.offer_id,
             query |-> <<"offset", "storeId">>, body |-> FALSE]
      [] op = "remove_from_offers_dealstack" ->
            [method |-> "DELETE",
             path |-> "exp/v1/offers/dealstack/offer/" \o a.offer_proposition_id,
             query |-> <<"offerId", "offset", "storeId">>, body |-> TRUE]
      [] op = "customer_login_refresh" ->
            [method |-> "POST", path |-> "exp/v1/customer/login/refresh",
             query |-> <<>>, body |-> TRUE]
      [] op = "get_customer_points" ->
            [method |-> "GET", path |-> "exp/v1/loyalty/customer/points",
             query |-> <<>>, body |-> FALSE]

----------------------------------------------------------------------------
(* The random values of a request: the mcd-uuid header of every request     *)
(* (Uuid::new_v4 in get_uuid) and the device id of a login                  *)
(* (Alphanumeric.sample_string on a StdRng seeded from entropy).            *)
(*   drawn   the values generated so far, in the order of their generation  *)

\* rand's Alphanumeric: A-Z, a-z, 0-9
AlphanumericCharset ==
    <<"A", "B", "C", "D", "E", "F", "G", "H", "I", "J", "K", "L", "M",
      "N", "O", "P", "Q", "R", "S", "T", "U", "V", "W", "X", "Y", "Z",
      "a", "b", "c", "d", "e", "f", "g", "h", "i", "j", "k", "l", "m",
      "n", "o", "p", "q", "r", "s", "t", "u", "v", "w", "x", "y", "z",
      "0", "1", "2", "3", "4", "5", "6", "7", "8", "9">>

RECURSIVE SampleFrom(_, _, _)
\* Alphanumeric samples six bits of the generator at a time and rejects a
\* value that is no index of the charset
SampleFrom(rng, i, len) ==
    IF len = 0 THEN <<>>
    ELSE IF rng[i] < Len(AlphanumericCharset)
         THEN <<AlphanumericCharset[rng[i] + 1]>> \o SampleFrom(rng, i + 1, len - 1)
         ELSE SampleFrom(rng, i + 1, len)

\* Alphanumeric.sample_string(&mut rng, len)
sample_string(rng, len) == SampleFrom(rng, 1, len)

\* the six-bit outputs of two generators, as StdRng::from_entropy may seed them
Rngs == {[i \in 1..20 |-> (7 * i) % 64], [i \in 1..20 |-> (13 * i + 61) % 64]}

\* FreshInvoke of a client that caches its UUID: the first UUID generated is
\* the UUID of every later request
FreshInvokeCachedUuid(op, a, uuid, rng) ==
    /\ call.pc = "idle"
    /\ sent < MaxSent
    /\ LET device_id == sample_string(rng, 16)
           cached == {i \in DOMAIN drawn : drawn[i].kind = "uuid"}
           id == IF cached = {} THEN uuid
                 ELSE drawn[CHOOSE i \in cached : \A k \in cached : i <= k].value
           o == Operation(op, client, a, id, Str(device_id))
           ids == IF op = "customer_login" /\ IsSome(client.login_token)
                  THEN <<[kind |-> "device_id", value |-> device_id]>> ELSE <<>>
       IN  IF o.tag = "Err"
           THEN /\ call' = [pc |-> "done", op |-> op, args |-> a, T |-> "",
                            request |-> None, outcome |-> None, result |-> Some(o)]
                /\ sent' = sent
                /\ drawn' = drawn \o ids
           ELSE /\ call' = [pc |-> "inflight", op |-> op, args |-> a, T |-> o.T,
                            request |-> Some(o.request), outcome |-> None,
                            result |-> None]
                /\ sent' = sent + 1
                /\ drawn' = drawn \o ids
                            \o (IF cached = {} THEN <<[kind |-> "uuid", value |-> uuid]>>
                                ELSE <<>>)
    /\ UNCHANGED <<client, serde, last_set, calls, failure, shown>>

\* the caller calls op: as Invoke, with the values the operation generates on
\* its way: customer_login its device id once its token check has passed,
\* and get_default_request the UUID of the request
FreshInvoke(op, a, uuid, rng) ==
    /\ call.pc = "idle"
    /\ sent < MaxSent
    /\ LET device_id == sample_string(rng, 16)
           o == Operation(op, client, a, uuid, Str(device_id))
           ids == IF op = "customer_login" /\ IsSome(client.login_token)
                  THEN <<[kind |-> "device_id", value |-> device_id]>> ELSE <<>>
       IN  IF o.tag = "Err"
           THEN /\ call' = [pc |-> "done", op |-> op, args |-> a, T |-> "",
                            request |-> None, outcome |-> None, result |-> Some(o)]
                /\ sent' = sent
                /\ drawn' = drawn \o ids
           ELSE /\ call' = [pc |-> "inflight", op |-> op, args |-> a, T |-> o.T,
                            request |-> Some(o.request), outcome |-> None,
                            result |-> None]
                /\ sent' = sent + 1
                /\ drawn' = drawn \o ids \o <<[kind |-> "uuid", value |-> uuid]>>
    /\ UNCHANGED <<client, serde, last_set, calls, failure, shown>>

FreshNext ==
    \/ \E t \in ConcLoginTokens : SetLoginToken(t)
    \/ \E t \in ConcTokens : SetAuthToken(t)
    \/ \E op \in ConcOperations : \E a \in ConcArgs(op) : \E uuid \in Uuids :
          \E rng \in Rngs : FreshInvoke(op, a, uuid, rng)
    \/ Respond
    \/ Return

FreshSpec == Init /\ [][FreshNext]_vars

Alphanumerics == {AlphanumericCharset[i] : i \in DOMAIN AlphanumericCharset}

ClientFields == {"base_url", "client_id", "login_token", "auth_token"}

\* C22: the request of every customer_login carries the JSON body
\* {credentials: {loginUsername, password, type: "email"}, deviceId} with the
\* caller's username and password, and the sensor data unchanged as its only
\* x-acf-sensor-data header; deviceId is the value generated in this call,
\* right before the UUID of this request, a string of exactly 16 alphanumeric
\* characters, and the client has no field that keeps it
C22_LoginBody ==
    (IsSome(call.request) /\ call.op = "customer_login")
    => LET req == call.request.val
           n == Len(drawn)
       IN  /\ n >= 2 /\ drawn[n].kind = "uuid" /\ drawn[n - 1].kind = "device_id"
           /\ Len(drawn[n - 1].value) = 16
           /\ \A i \in 1..16 : drawn[n - 1].value[i] \in Alphanumerics
           /\ req.body = Some([credentials |->
                                  [loginUsername |-> call.args.login_username,
                                   password |-> call.args.login_password,
                                   type |-> "email"],
                               deviceId |-> Str(drawn[n - 1].value)])
           /\ HeaderValues(req, "x-acf-sensor-data") = <<call.args.sensor_data>>
           /\ DOMAIN client = ClientFields

\* the second login of a client is in flight, with a device id other than
\* that of the first
C22_Witness ==
    /\ call.pc = "inflight" /\ call.op = "customer_login"
    /\ Len(drawn) = 4 /\ drawn[1].kind = "device_id" /\ drawn[3].kind = "device_id"
    /\ drawn[1].value # drawn[3].value
    /\ call.request.val.body.val.deviceId = Str(drawn[3].value)

\* C23: the mcd-uuid of a request is generated once, when the request is
\* built, and kept nowhere: the client has no field for it, as many UUIDs
\* were generated as requests were handed to the transport (a setter or a
\* failed call generates none), and the only mcd-uuid header of a request is
\* the UUID generated last, that of its own build
C23_FreshUuid ==
    /\ DOMAIN client = ClientFields
    /\ Cardinality({i \in DOMAIN drawn : drawn[i].kind = "uuid"}) = sent
    /\ IsSome(call.request)
       => /\ drawn # <<>> /\ drawn[Len(drawn)].kind = "uuid"
          /\ HeaderValues(call.request.val, "mcd-uuid") = <<drawn[Len(drawn)].value>>

\* the second request of a client is in flight with a UUID other than that of
\* the first, which was a request of another operation
C23_Witness ==
    /\ call.pc = "inflight" /\ call.op = "offer_details" /\ sent = 2
    /\ Len(drawn) = 2 /\ drawn[1].kind = "uuid"
    /\ HeaderValues(call.request.val, "mcd-uuid") = <<drawn[2].value>>
    /\ drawn[1].value # drawn[2].value
    /\ HeaderValues(call.request.val, "mcd-clientsecret") = <<>>

\* the integer that the decimal string cs denotes: its sign and its digits
\* without leading zeros (zero has no digits and no sign)
IntegerOf(cs) ==
    LET signed == cs # <<>> /\ cs[1] \in {"+", "-"}
        ds == IF signed THEN Tail(cs) ELSE cs
        nonzero == {i \in 1..Len(ds) : ds[i] # "0"}
        first == IF nonzero = {} THEN Len(ds) + 1
                 ELSE CHOOSE i \in nonzero : \A k \in nonzero : i <= k
        mag == [i \in 1..(Len(ds) - first + 1) |-> DigitVal(ds[i + first - 1])]
    IN  [neg |-> cs # <<>> /\ cs[1] = "-" /\ mag # <<>>, mag |-> mag]

\* C24: remove_from_offers_dealstack passes its checks whenever the auth
\* token is set and offer id and offset are decimal i64 strings, whatever the
\* store id and the offer proposition id are; its request is then a DELETE
\* of exp/v1/offers/dealstack/offer/<offer proposition id>, with the query
\* parameters offerId, offset and storeId as the caller gave them, and with
\* the JSON body {storeId, offerId, offset} whose offerId and offset are the
\* integers those strings denote and whose storeId is the string
C24_RemoveRequest ==
    (call.pc # "idle" /\ call.op = "remove_from_offers_dealstack")
    => LET a == call.args
       IN  /\ (IsSome(client.auth_token) /\ DecimalI64(a.offer_id) /\ DecimalI64(a.offset))
              => IsSome(call.request)
           /\ IsSome(call.request)
              => LET req == call.request.val
                 IN  /\ req.method = "DELETE"
                     /\ req.url = client.base_url \o "/exp/v1/offers/dealstack/offer/"
                                     \o a.offer_proposition_id
                     /\ req.query = << <<"offerId", Str(a.offer_id)>>,
                                       <<"offset", Str(a.offset)>>,
                                       <<"storeId", a.store_id>> >>
                     /\ req.body = Some([storeId |-> a.store_id,
                                         offerId |-> IntegerOf(a.offer_id),
                                         offset |-> IntegerOf(a.offset)])

\* a removal in flight with the offer id "+7", the offset "-600" and a store
\* id and an offer proposition id that are no numbers
C24_Witness ==
    /\ call.pc = "inflight" /\ call.op = "remove_from_offers_dealstack"
    /\ call.args.offer_id = <<"+", "7">> /\ call.args.offset = <<"-", "6", "0", "0">>
    /\ call.args.store_id = "store" /\ call.args.offer_proposition_id = "prop"
    /\ call.request.val.body.val.offerId = [neg |-> FALSE, mag |-> <<7>>]
    /\ call.request.val.body.val.offset = [neg |-> TRUE, mag |-> <<6, 0, 0>>]
    /\ call.request.val.query[1] = <<"offerId", "+7">>

\* C25: the envelope of every successful call has the status code and the
\* header multi-map of the transport's response, unchanged, and as its body
\* the deserialization of the response's body; the vendor's status inside
\* the body is not interpreted: a body that deserializes yields a success
\* under every status code, whatever vendor code it carries
C25_EnvelopeCopies ==
    Answered
    => LET resp == call.outcome.val.response
           r == call.result.val
           d == IF resp.body.tag = "json" THEN Deserialize(TStruct(call.T), resp.body.v)
                ELSE DeErr
       IN  IF d.tag = "Ok"
           THEN /\ r.tag = "Ok"
                /\ DOMAIN r.val = {"status", "headers", "body"}
                /\ r.val.status = resp.status
                /\ r.val.headers = resp.headers
                /\ r.val.body = d.val
           ELSE r.tag = "Err"

\* a success envelope with the status 200, both set-cookie headers of the
\* response, and a body whose vendor status code is 40006
C25_Witness ==
    /\ Answered /\ call.result.val.tag = "Ok"
    /\ call.result.val.val.status = 200
    /\ HeaderValues(call.result.val.val, "set-cookie") = <<"a=1", "b=2">>
    /\ call.result.val.val.body.status.code = JInt(40006)
    /\ call.result.val.val.body.response = None


----------------------------------------------------------------------------
(* The error enum.  ClientError has a From conversion for each of the four  *)
(* error types the operations raise, and status().  A failure is raised,    *)
(* converted by From::from and asked for its status.                        *)

\* the messages of the anyhow errors
ErrorMessages == {"no login token set", "no auth token set", "middleware failed"}

\* the kinds of a reqwest::Error that carry no status code
ErrorKinds == {"Builder", "Request", "Redirect", "Body", "Decode", "Upgrade"}

\* the status codes a reqwest::Error of kind Status carries
ErrorStatusCodes == {400, 401, 403, 404, 429, 500, 502, 503}

ReqwestErrors ==
    {[type |-> "reqwest::Error", kind |-> k, status |-> None] : k \in ErrorKinds}
    \cup {[type |-> "reqwest::Error", kind |-> "Status", status |-> Some(c)] :
            c \in ErrorStatusCodes}

AnyhowErrors == {NoToken(m) : m \in ErrorMessages}

MiddlewareErrors ==
    {[type |-> "reqwest_middleware::Error", variant |-> "Middleware", inner |-> e] :
        e \in AnyhowErrors}
    \cup {[type |-> "reqwest_middleware::Error", variant |-> "Reqwest", inner |-> e] :
            e \in ReqwestErrors}

ParseIntErrors ==
    {ParseErr(k).err : k \in {"Empty", "InvalidDigit", "PosOverflow", "NegOverflow"}}

Errors == AnyhowErrors \cup MiddlewareErrors \cup ReqwestErrors \cup ParseIntErrors

ErrorInit ==
    /\ client \in {new(b, c) : b \in BaseUrls, c \in ClientIds}
    /\ call = NoCall
    /\ sent = 0
    /\ serde = NoSerde
    /\ last_set = NeverSet
    /\ calls = NoCalls
    /\ drawn = NoneDrawn
    /\ failure \in {[pc |-> "raised", cause |-> e, error |-> None, code |-> None] :
                      e \in Errors}
    /\ shown = NoneShown

\* From::from converts the failure into a ClientError
ErrorFrom ==
    /\ failure.pc = "raised"
    /\ failure' = [failure EXCEPT !.pc = "converted",
                                  !.error = Some(ClientErrorFrom(failure.cause))]
    /\ UNCHANGED <<client, call, sent, serde, last_set, calls, drawn, shown>>

\* the caller asks the ClientError for its status
ErrorStatus ==
    /\ failure.pc = "converted"
    /\ failure' = [failure EXCEPT !.pc = "asked", !.code = status(failure.error.val)]
    /\ UNCHANGED <<client, call, sent, serde, last_set, calls, drawn, shown>>

ErrorNext == ErrorFrom \/ ErrorStatus

ErrorSpec == ErrorInit /\ [][ErrorNext]_vars

\* the status code the reqwest error inside a cause carries, if there is one
Carried(e) ==
    IF e.type = "reqwest::Error" THEN e.status
    ELSE IF e.type = "reqwest_middleware::Error" /\ e.variant = "Reqwest"
         THEN e.inner.status
         ELSE None

\* C26: the error enum keeps each cause in its own kind.  A converted
\* reqwest_middleware error is a RequestOrMiddlewareError holding it, a
\* converted reqwest error is a RequestError holding it, a converted anyhow
\* error is an Other holding it and a converted integer parse error is an
\* Other holding an anyhow error made from it; status() returns the code the
\* wrapped reqwest error carries when it carries one, and none otherwise:
\* none for every Middleware error and for every Other.
C26_ErrorKinds ==
    /\ failure.pc \in {"converted", "asked"}
       => LET e == failure.cause
              ce == failure.error.val
          IN  /\ e.type = "reqwest_middleware::Error"
                 => ce.kind = "RequestOrMiddlewareError" /\ ce.cause = e
              /\ e.type = "reqwest::Error"
                 => ce.kind = "RequestError" /\ ce.cause = e
              /\ e.type = "anyhow::Error" => ce.kind = "Other" /\ ce.cause = e
              /\ e.type = "ParseIntError"
                 => /\ ce.kind = "Other"
                    /\ ce.cause.type = "anyhow::Error"
                    /\ ce.cause.source = e
    /\ failure.pc = "asked"
       => LET e == failure.cause
              ce == failure.error.val
          IN  /\ failure.code = Carried(e)
              /\ IsSome(failure.code)
                 => /\ ce.kind \in {"RequestOrMiddlewareError", "RequestError"}
                    /\ failure.code.val \in ErrorStatusCodes
              /\ ce.kind = "Other" => failure.code = None
              /\ e.type = "reqwest_middleware::Error" /\ e.variant = "Middleware"
                 => failure.code = None

\* a transport error that wraps a reqwest error with status 401 was converted
\* and asked for its status
C26_Witness ==
    /\ failure.pc = "asked"
    /\ failure.cause.type = "reqwest_middleware::Error"
    /\ failure.cause.variant = "Reqwest"
    /\ failure.error.val.kind = "RequestOrMiddlewareError"
    /\ failure.code = Some(401)


----------------------------------------------------------------------------
\* the call ended with the precondition error of a token check
Unauthenticated ==
    Failed /\ call.result.val.err.type = "anyhow::Error"

\* C27: a token slot, once set, is never empty again.  In every state after
\* the first call of set_login_token the login slot holds a token, and after
\* the first call of set_auth_token the auth slot does, whatever calls were
\* made and answered in between; so a call that ended with the precondition
\* error is a customer_login on a client whose set_login_token was never
\* called, or a post-login operation on a client whose set_auth_token was
\* never called.
C27_SlotsStaySet ==
    /\ IsSome(last_set.login) => IsSome(client.login_token)
    /\ IsSome(last_set.auth) => IsSome(client.auth_token)
    /\ Unauthenticated
       => /\ call.op \in TokenGated
          /\ LastSet(call.op) = None

\* after set_auth_token was called and a first call has come and gone, a
\* post-login call is in flight as the second request, with the token
C27_Witness ==
    /\ IsSome(last_set.auth)
    /\ sent = 2
    /\ call.pc = "inflight"
    /\ call.op \in PostLogin
    /\ IsSome(client.auth_token)
    /\ HeaderValues(call.request.val, "authorization")
         = <<Bearer(client.auth_token.val)>>


----------------------------------------------------------------------------
\* C28: each setter changes only its own slot.  No step changes base_url or
\* client_id or the set of the client's fields, so that they keep their
\* values of construction; a call of set_login_token (the step that records
\* its argument) leaves auth_token as it was and stores the argument in
\* login_token, and a call of set_auth_token leaves login_token as it was and
\* stores the argument in auth_token.
C28_SettersFrame ==
    [][/\ client'.base_url = client.base_url
       /\ client'.client_id = client.client_id
       /\ DOMAIN client' = DOMAIN client
       /\ last_set'.login # last_set.login
          => /\ client'.auth_token = client.auth_token
             /\ client'.login_token = last_set'.login
       /\ last_set'.auth # last_set.auth
          => /\ client'.login_token = client.login_token
             /\ client'.auth_token = last_set'.auth]_vars

\* both setters were called, with different tokens, and each slot holds the
\* token of its own setter beside the base URL and client id of construction
C28_Witness ==
    /\ IsSome(last_set.login) /\ IsSome(last_set.auth)
    /\ last_set.login # last_set.auth
    /\ client.login_token = last_set.login
    /\ client.auth_token = last_set.auth
    /\ client.base_url \in BaseUrls
    /\ client.client_id \in ClientIds
    /\ sent > 0


----------------------------------------------------------------------------
(* Debug formatting.  The output of a formatter is the sequence of the      *)
(* pieces written to it.  DebugStruct writes the name of the struct and,    *)
(* for each field given to it, the name of the field and the Debug output   *)
(* of the value given for it.                                               *)

RECURSIVE DebugFields(_)
DebugFields(fields) ==
    IF fields = <<>> THEN <<>>
    ELSE <<fields[1][1], ": ">> \o fields[1][2]
         \o (IF Len(fields) > 1 THEN <<", ">> ELSE <<>>)
         \o DebugFields(Tail(fields))

debug_struct(name, fields) == <<name, " { ">> \o DebugFields(fields) \o <<" }">>

\* Debug of a string: the string between quotation marks
str_fmt(s) == <<"\"", s, "\"">>

\* Debug of an Option<String>
option_fmt(o) == IF IsSome(o) THEN <<"Some(">> \o str_fmt(Str(o.val)) \o <<")">>
                 ELSE <<"None">>

\* Debug of the ClientWithMiddleware the client borrows
ClientWithMiddleware_fmt == <<"ClientWithMiddleware", " { ", "..", " }">>

\* the Debug that derive(Debug) would give ApiClient: every field
ApiClient_fmt_derived(self) ==
    debug_struct("ApiClient",
                 << <<"base_url", str_fmt(self.base_url)>>,
                    <<"client", ClientWithMiddleware_fmt>>,
                    <<"auth_token", option_fmt(self.auth_token)>>,
                    <<"login_token", option_fmt(self.login_token)>>,
                    <<"client_id", str_fmt(Str(self.client_id))>> >>)

\* impl Debug for ApiClient
ApiClient_fmt(self) ==
    debug_struct("ApiClient",
                 << <<"base_url", str_fmt(self.base_url)>>,
                    <<"client", ClientWithMiddleware_fmt>> >>)

\* impl Debug for AccessTokenResponse
AccessTokenResponse_fmt(self) ==
    debug_struct("AccessTokenResponse",
                 << <<"access_token", str_fmt("[redacted]")>>,
                    <<"refresh_token", str_fmt("[redacted]")>> >>)

\* the tokens of the formatted clients
DebugTokens == {None, Some(<<"L">>), Some(<<"A">>)}

DebugClients ==
    {[new(b, c) EXCEPT !.login_token = lt, !.auth_token = at] :
        b \in BaseUrls, c \in ClientIds, lt \in DebugTokens \ {Some(<<"A">>)},
        at \in DebugTokens \ {Some(<<"L">>)}}

\* the values of the formatted login responses
DebugResponses ==
    {[access_token |-> a, refresh_token |-> r] :
        a \in {"eyJhbGciOi.1", "eyJhbGciOi.2"}, r \in {"rt-1", "rt-2"}}

\* two sessions side by side: each a client and the AccessTokenResponse of
\* its login, the clients alike but for their credentials
DebugInit ==
    /\ client \in {new(b, c) : b \in BaseUrls, c \in ClientIds}
    /\ call = NoCall
    /\ sent = 0
    /\ serde = NoSerde
    /\ last_set = NeverSet
    /\ calls = NoCalls
    /\ drawn = NoneDrawn
    /\ failure = NoFailure
    /\ shown \in {[pc |-> "values", clients |-> cs, responses |-> rs,
                   client_out |-> <<None, None>>, response_out |-> <<None, None>>] :
                    cs \in {p \in DebugClients \X DebugClients :
                              p[1].base_url = p[2].base_url /\ p[1] # p[2]},
                    rs \in {p \in DebugResponses \X DebugResponses : p[1] # p[2]}}

\* the client of session i is formatted with {:?}
DebugClient(i) ==
    /\ shown.pc = "values" /\ shown.client_out[i] = None
    /\ shown' = [shown EXCEPT !.client_out[i] = Some(ApiClient_fmt(shown.clients[i]))]
    /\ UNCHANGED <<client, call, sent, serde, last_set, calls, drawn, failure>>

\* the login response of session i is formatted with {:?}
DebugResponse(i) ==
    /\ shown.pc = "values" /\ shown.response_out[i] = None
    /\ shown' = [shown EXCEPT
                    !.response_out[i] = Some(AccessTokenResponse_fmt(shown.responses[i]))]
    /\ UNCHANGED <<client, call, sent, serde, last_set, calls, drawn, failure>>

DebugNext == \E i \in 1..2 : DebugClient(i) \/ DebugResponse(i)

DebugSpec == DebugInit /\ [][DebugNext]_vars

\* the credentials of session i, as strings
Credentials(i) ==
    {Str(shown.clients[i].client_id),
     shown.responses[i].access_token, shown.responses[i].refresh_token}
    \cup {Str(o.val) : o \in {o \in {shown.clients[i].login_token,
                                       shown.clients[i].auth_token} : IsSome(o)}}

\* C29: Debug formatting does not reveal credentials.  The Debug outputs of
\* two clients that differ only in login token, auth token or client id are
\* the same, and so are those of two AccessTokenResponse values that differ
\* in their tokens; no output has a credential of its session among its
\* pieces, and the output of an AccessTokenResponse has "[redacted]" for
\* each of its two fields.
C29_DebugRedacts ==
    shown.pc = "values"
    => /\ IsSome(shown.client_out[1]) /\ IsSome(shown.client_out[2])
          => shown.client_out[1] = shown.client_out[2]
       /\ IsSome(shown.response_out[1]) /\ IsSome(shown.response_out[2])
          => shown.response_out[1] = shown.response_out[2]
       /\ \A i \in 1..2 :
             /\ IsSome(shown.client_out[i])
                => \A k \in DOMAIN shown.client_out[i].val :
                      shown.client_out[i].val[k] \notin Credentials(i)
             /\ IsSome(shown.response_out[i])
                => LET out == shown.response_out[i].val
                   IN  /\ \A k \in DOMAIN out : out[k] \notin Credentials(i)
                       /\ \E k, l \in DOMAIN out :
                             /\ k < l
                             /\ out[k] = "access_token" /\ out[k + 3] = "[redacted]"
                             /\ out[l] = "refresh_token" /\ out[l + 3] = "[redacted]"

\* both sessions were formatted: the clients differ in login token, auth
\* token and client id, the responses in both tokens
C29_Witness ==
    /\ shown.pc = "values"
    /\ \A i \in 1..2 : IsSome(shown.client_out[i]) /\ IsSome(shown.response_out[i])
    /\ shown.clients[1].login_token # shown.clients[2].login_token
    /\ shown.clients[1].auth_token # shown.clients[2].auth_token
    /\ shown.clients[1].client_id # shown.clients[2].client_id
    /\ IsSome(shown.clients[1].login_token) /\ IsSome(shown.clients[2].auth_token)
    /\ shown.responses[1].access_token # shown.responses[2].access_token
    /\ shown.responses[1].refresh_token # shown.responses[2].refresh_token

====
